---- MODULE Spec2Model ----
(***************************************************************************)
(* VisionGlove: the threat evaluator and main cycle of                     *)
(* core/glove_system.py and the emergency dispatcher of                    *)
(* communications/emergency_dispatcher.py with its SMS and livestream      *)
(* services.                                                                *)
(*                                                                         *)
(* Python dicts are functions whose domain is the set of keys present.     *)
(* Emergency records are Python objects shared by reference between the    *)
(* current-emergency pointer and the history list: they live in the store  *)
(* `records` (indexed by creation order) and the pointer and the history   *)
(* hold indexes into it.                                                   *)
(*                                                                         *)
(* The coroutines of the dispatcher and of its services contain no real    *)
(* suspension point (no sleep, no I/O), so under asyncio each dispatcher   *)
(* call runs to completion as one step.  The only suspension inside a main *)
(* cycle is the haptic activation delay.                                   *)
(***************************************************************************)
EXTENDS Integers, Sequences, FiniteSets, TLC

\* ------------------------------------------------------------------ bounds
MaxPersons == 4      \* person counts 0..MaxPersons reported by vision
MaxThreshold == 3    \* configured vision.person_threshold in 1..MaxThreshold
MaxCycles == 3       \* main cycles followed
MaxDispatches == 2   \* emergency records created in one session
MaxSec == 0          \* wall-clock seconds 0..MaxSec of a timestamp
MaxMicro == 1        \* distinct microsecond values, named 0..MaxMicro, of the timestamps
MaxFailures == 1     \* transport calls that fail in one session
MaxLate == 3         \* dispatches followed after the history has been filled
MaxWait == 2         \* time units for which a transport call that does not answer is followed
MaxWrites == 1       \* changes a reader makes to a value the dispatcher returned
MaxSamples == 2      \* samples a calibrate call is asked for
MaxCalibrations == 2 \* calibrate calls of one channel that are followed
MaxTime == 1         \* clock ticks while a channel is followed
MaxReads == 2        \* successful reads of the IMU unit that are followed
MaxFlexValues == 5   \* flex values handed to the gesture classifier
MaxSets == 2         \* set calls on one configuration manager

\* ------------------------------------------------------- program constants
SAFE == 0
CAUTION == 1
ALERT == 2
EMERGENCY == 3
HashMod == 1000
max_history_size == 100
default_limit == 10
default_person_threshold == 3
SleepDelay == 1      \* asyncio.sleep(0.1) of the main loop, in tenths of a second
BackoffDelay == 10   \* asyncio.sleep(1.0) after an exception
HapticDelay == 1     \* asyncio.sleep(0.1) of the haptic activation

ThreatLevels == SAFE..EMERGENCY

\* ------------------------------------------------------------------ state
VARIABLES
    \* VisionGloveSystem
    threat_level,         \* self.threat_level, the held level
    person_threshold,     \* config 'vision.person_threshold'
    haptic_controller,    \* TRUE iff self.haptic_controller is not None
    pc,                   \* position of the main loop: "sleep" | "haptic"
    cycle,                \* locals and outcome of the cycle in progress / last completed
    cycles,               \* number of cycles started
    \* EmergencyDispatcher
    emergency_contacts,   \* self.emergency_contacts (the split config string)
    police_number,        \* self.police_number
    stream_enabled,       \* stream_config.get('enabled', True)
    auto_response_enabled,
    records,              \* every emergency record object created, by creation order
    current_emergency,    \* index into records, 0 for None
    emergency_history,    \* sequence of indexes into records
    \* LivestreamService
    is_streaming,         \* the instance attribute is_streaming
    \* interpreter and environment
    str_hash,             \* hash() of the microsecond strings, fixed per process
    failures,             \* transport calls that have failed so far
    \* observation of the last dispatcher call
    last,
    \* VisionGloveSystem lifecycle
    is_running,           \* self.is_running
    start_time,           \* self.start_time, None before the first start
    last_update,          \* self.last_update, None before the first completed cycle
    subsystems,           \* the subsystem attributes that are not None (haptic_controller apart)
    main_loop,            \* the _main_loop task: its position, the current_time of its
                          \* cycle, the exceptions it has caught
    clock,                \* time.time(), in tenths of a second
    status,               \* observation of the last get_status call
    \* transports
    pending,              \* the transport call a dispatch is awaiting without answer
    \* SensorManager and VisionProcessor
    latest_data,          \* SensorManager.latest_data, the last snapshot collected
    latest_analysis,      \* VisionProcessor.latest_analysis
    calibrating,          \* the calibration routines in progress
    fed,                  \* the channels whose readings, taken during their calibration,
                          \* went into the classifier for the last snapshot
    \* a caller of the dispatcher's queries
    reader,               \* the value the last query returned, as the caller holds it
    \* ConfigManager and the callers of start
    config,               \* the shape of ConfigManager.config, as validate sees it
    started,              \* observation of the last start call
    manager,              \* a ConfigManager: its config, the file at its path, a second
                          \* manager constructed on the path, the outcome of its last call
    \* sensor channels
    pressure,             \* a PressureSensor: its attributes, its calibrate call in
                          \* progress, the outcome of its last call
    flex,                 \* a FlexSensor, likewise
    imu,                  \* an IMUSensor, likewise
    \* a caller of the gesture classifier
    hand,                 \* the flex values handed to _detect_gestures, what it returned
    \* background tasks
    background            \* the subsystems whose loop task runs (is_active is True),
                          \* whether a stop call has returned since the last start call

sysVars  == <<threat_level, person_threshold, haptic_controller, pc, cycle, cycles>>
dispVars == <<emergency_contacts, police_number, stream_enabled, auto_response_enabled,
              records, current_emergency, emergency_history, is_streaming, str_hash>>
lifeVars == <<is_running, start_time, last_update, subsystems, main_loop, clock, status>>
sensVars == <<latest_data, latest_analysis, calibrating, fed>>
cfgVars == <<config, started, manager>>
chanVars == <<pressure, flex, imu>>
newVars == <<cfgVars, chanVars, hand, background>>
extVars == <<lifeVars, pending, sensVars, reader, newVars>>
vars == <<sysVars, dispVars, failures, last, extVars>>

\* ------------------------------------------------------------ dict helpers
EmptyDict == [k \in {} |-> 0]

\* Python's None where the other values are numbers
None == -1

DictGet(d, k, default) == IF k \in DOMAIN d THEN d[k] ELSE default

max(a, b) == IF a >= b THEN a ELSE b

\* ------------------------------------------------------- threat evaluator
\* VisionGloveSystem._analyze_threat_level
analyze_threat_level_mut(sensor_data, vision_data, threshold) ==
    LET t0 == 0
        t1 == IF DictGet(vision_data, "person_count", 0) >= threshold
              THEN max(t0, CAUTION) ELSE t0
        t2 == IF DictGet(sensor_data, "emergency_gesture", FALSE)
              THEN EMERGENCY ELSE t1
        t3 == IF DictGet(sensor_data, "unusual_movement", FALSE)
              THEN ALERT ELSE t2
    IN  t3

analyze_threat_level(sensor_data, vision_data, threshold) ==
    LET t0 == 0
        t1 == IF DictGet(vision_data, "person_count", 0) >= threshold
              THEN max(t0, CAUTION) ELSE t0
        t2 == IF DictGet(sensor_data, "unusual_movement", FALSE)
              THEN max(t1, ALERT) ELSE t1
        t3 == IF DictGet(sensor_data, "emergency_gesture", FALSE)
              THEN EMERGENCY ELSE t2
    IN  t3

\* the evidence the evaluator can be handed: dicts with or without the keys
\* it reads
SensorDicts ==
    UNION { [D -> BOOLEAN] : D \in SUBSET {"unusual_movement", "emergency_gesture"} }

VisionDicts ==
    {EmptyDict} \cup { [person_count |-> n] : n \in 0..MaxPersons }


\* ------------------------------------------------------------- timestamps
\* emergency_data['timestamp']: a datetime (a caller's, or the default
\* datetime.now()) or the float that time.time() returns
FloatTs == [kind |-> "float"]

Datetimes == { [kind |-> "datetime", sec |-> s, us |-> u] : s \in 0..MaxSec, u \in 0..MaxMicro }

Timestamps == Datetimes \cup {FloatTs}

\* only datetime objects have strftime; on a float the call raises AttributeError
HasStrftime(ts) == ts.kind = "datetime"

\* hash(str(microsecond)) differs for distinct strings; which value each gets
\* changes from process to process (hash randomisation) and is fixed within
\* one.  Two processes are followed: one whose hashes stay apart below
\* HashMod, one whose hashes differ by multiples of HashMod
StrHashes == { [u \in 0..MaxMicro |-> u + 1], [u \in 0..MaxMicro |-> (u + 1) * HashMod] }

HashValues == UNION { {f[u] : u \in DOMAIN f} : f \in StrHashes }

\* EmergencyDispatcher._generate_emergency_id: "VG_<date>_<time>_<hash % 1000>";
\* the text is determined by the pair (second, three-digit hash) and determines it
generate_emergency_id(timestamp, h) == <<timestamp.sec, h[timestamp.us] % HashMod>>

\* timestamp of a log entry (datetime.now()); its value decides nothing
Now == "now"

\* ------------------------------------------------------- contact strings
\* str.strip() on the contact strings of the configurations followed
strip(s) == CASE s = " " -> ""
              [] s = " c2" -> "c2"
              [] OTHER -> s

\* comm_config['emergency_contact'].split(','): never an empty list
ContactLists == { <<"">>, <<"c1">>, <<"c1", " ", " c2">> }

PoliceNumbers == {"", "911"}

\* --------------------------------------------------- LivestreamService
\* attributes bound on the instance by __init__ (lines 15-22)
LivestreamInstanceAttrs ==
    {"config", "is_initialized", "is_streaming", "platform", "quality", "max_duration"}

\* Python attribute lookup on a LivestreamService instance: an instance
\* attribute hides a method of the same name, and calling a bool raises TypeError
LivestreamCallRaises(name) == name \in LivestreamInstanceAttrs

\* LivestreamService.start_emergency_stream: the new is_streaming.  The
\* assignment is the first statement of the try block, so the attribute is
\* set whether the call then returns True or (the except branch) False
start_emergency_stream(streaming, ok) == TRUE

\* LivestreamService.stop_stream: the new is_streaming
stop_stream_mut(streaming) == streaming

stop_stream(streaming) == FALSE

\* ------------------------------------------------ dispatcher, one dispatch
\* what a dispatch has done so far: the record's action log, the calls made
\* on the SMS and livestream services, the handlers that returned, the
\* livestream flag, and whether an exception is propagating
Ctx0(streaming) ==
    [actions |-> <<>>, calls |-> <<>>, completed |-> <<>>, streaming |-> streaming,
     raised |-> FALSE]

returned(ctx, handler) == [ctx EXCEPT !.completed = Append(@, handler)]

Call(handler, port, to, ok) == [h |-> handler, port |-> port, to |-> to, ok |-> ok]

\* EmergencyDispatcher._handle_caution_level (with _prepare_emergency_systems)
handle_caution_level(ctx) ==
    returned([ctx EXCEPT
       !.actions = Append(@, [action |-> "logged_event", timestamp |-> Now,
                              details |-> "Caution level event logged"]),
       !.calls = @ \o << Call("caution", "test_connection", "", TRUE),
                         Call("caution", "prepare_stream", "", TRUE) >>], "caution")

\* one SMS attempt and its log entry (lines 145-151 and 170-176)
sms_attempt_mut(ctx, handler, action, recipient, ok) ==
    [ctx EXCEPT
       !.actions = IF ok THEN Append(@, [action |-> action, timestamp |-> Now,
                                         recipient |-> recipient, success |-> ok])
                   ELSE @,
       !.calls = Append(@, Call(handler, "send_sms", recipient, ok))]

sms_attempt(ctx, handler, action, recipient, ok) ==
    [ctx EXCEPT
       !.actions = Append(@, [action |-> action, timestamp |-> Now,
                              recipient |-> recipient, success |-> ok]),
       !.calls = Append(@, Call(handler, "send_sms", recipient, ok))]

\* one livestream start and its log entry (lines 155-160 and 185-190)
stream_attempt(ctx, handler, action, ok) ==
    [ctx EXCEPT
       !.streaming = start_emergency_stream(@, ok),
       !.actions = Append(@, [action |-> action, timestamp |-> Now, success |-> ok]),
       !.calls = Append(@, Call(handler, "start_emergency_stream", "", ok))]

\* the loop over the contacts, from position i (lines 142-151)
RECURSIVE alert_contacts_mut(_, _, _, _)
alert_contacts_mut(ctx, contacts, i, smsOk) ==
    IF i > Len(contacts) THEN ctx
    ELSE LET contact == strip(contacts[i])
         IN  IF contact # ""
             THEN IF smsOk[i]
                  THEN alert_contacts_mut(sms_attempt(ctx, "alert", "sms_sent", contact, smsOk[i]),
                                          contacts, i + 1, smsOk)
                  ELSE sms_attempt(ctx, "alert", "sms_sent", contact, smsOk[i])
             ELSE alert_contacts_mut(ctx, contacts, i + 1, smsOk)

RECURSIVE alert_contacts(_, _, _, _)
alert_contacts(ctx, contacts, i, smsOk) ==
    IF i > Len(contacts) THEN ctx
    ELSE LET contact == strip(contacts[i])
         IN  IF contact # ""
             THEN alert_contacts(sms_attempt(ctx, "alert", "sms_sent", contact, smsOk[i]),
                                 contacts, i + 1, smsOk)
             ELSE alert_contacts(ctx, contacts, i + 1, smsOk)

\* EmergencyDispatcher._handle_alert_level
handle_alert_level(ctx, contacts, auto, enabled, smsOk, streamOk) ==
    LET c1 == IF Len(contacts) > 0 /\ auto
              THEN alert_contacts(ctx, contacts, 1, smsOk) ELSE ctx
    IN  IF enabled
        THEN returned(stream_attempt(c1, "alert", "livestream_started", streamOk), "alert")
        ELSE returned(c1, "alert")

\* EmergencyDispatcher._handle_emergency_level
handle_emergency_level(ctx, police, auto, policeOk, streamOk) ==
    LET c1 == IF police # "" /\ auto
              THEN sms_attempt(ctx, "emergency", "police_alert_sent", police, policeOk)
              ELSE ctx
    IN  IF LivestreamCallRaises("is_streaming")
        THEN [c1 EXCEPT !.raised = TRUE]
        ELSE IF ~c1.streaming
             THEN returned(stream_attempt(c1, "emergency", "emergency_livestream_started",
                                          streamOk), "emergency")
             ELSE returned(c1, "emergency")

\* the three threshold tests of dispatch_emergency (lines 99-107); an
\* exception leaving a handler skips the rest
run_handlers(threat, streaming, contacts, police, auto, enabled, out) ==
    LET c0 == Ctx0(streaming)
        c1 == IF threat >= CAUTION THEN handle_caution_level(c0) ELSE c0
        c2 == IF threat >= ALERT
              THEN handle_alert_level(c1, contacts, auto, enabled, out.sms, out.stream)
              ELSE c1
        c3 == IF threat >= EMERGENCY
              THEN handle_emergency_level(c2, police, auto, out.police, out.stream2)
              ELSE c2
    IN  c3

\* the outcomes of the transport calls of one dispatch: at most MaxFailures
\* of them fail
AllOutcomes(contacts) ==
    [sms : [1..Len(contacts) -> BOOLEAN], stream : BOOLEAN, police : BOOLEAN, stream2 : BOOLEAN]

OutcomeFailures(o) ==
    Cardinality({ i \in DOMAIN o.sms : ~o.sms[i] })
      + (IF o.stream THEN 0 ELSE 1) + (IF o.police THEN 0 ELSE 1) + (IF o.stream2 THEN 0 ELSE 1)

Outcomes(contacts) == { o \in AllOutcomes(contacts) : OutcomeFailures(o) <= MaxFailures }

NoNotes == "<absent>"

\* the calls that go out to a transport
IsAttempt(call) == call.port \in {"send_sms", "start_emergency_stream"}

FailedCalls(calls) == Cardinality({ i \in DOMAIN calls : ~calls[i].ok })

\* lines 109-112
history_append_mut(history, n) ==
    LET h == Append(history, n)
    IN  IF Len(h) > max_history_size THEN SubSeq(h, 1, max_history_size) ELSE h

history_append(history, n) ==
    LET h == Append(history, n)
    IN  IF Len(h) > max_history_size THEN Tail(h) ELSE h

\* EmergencyDispatcher.dispatch_emergency: the dispatcher's next state and
\* the observation of the call
dispatch_emergency(caller, threat, timestamp, out) ==
    IF ~HasStrftime(timestamp)
    THEN \* _generate_emergency_id raises before the record exists
         /\ UNCHANGED <<records, current_emergency, emergency_history, is_streaming, failures>>
         /\ last' = [op |-> "dispatch", caller |-> caller, ok |-> FALSE, threat |-> threat,
                     id |-> <<>>, rec |-> 0, cur |-> current_emergency, calls |-> <<>>,
                     handlers |-> <<>>, notes |-> NoNotes, auto |-> auto_response_enabled,
                     was_streaming |-> is_streaming]
    ELSE LET c == run_handlers(threat, is_streaming, emergency_contacts, police_number,
                               auto_response_enabled, stream_enabled, out)
             id == generate_emergency_id(timestamp, str_hash)
             emergency == [id |-> id, timestamp |-> timestamp, threat_level |-> threat,
                           actions_taken |-> c.actions, status |-> "active",
                           resolution_notes |-> NoNotes]
             n == Len(records) + 1
         IN  /\ failures' = failures + FailedCalls(c.calls)
             /\ failures' <= MaxFailures
             /\ records' = Append(records, emergency)
             /\ current_emergency' = n
             /\ is_streaming' = c.streaming
             /\ emergency_history' = IF c.raised THEN emergency_history
                                     ELSE history_append(emergency_history, n)
             /\ last' = [op |-> "dispatch", caller |-> caller, ok |-> ~c.raised,
                         threat |-> threat, id |-> id, rec |-> n, cur |-> current_emergency,
                         calls |-> c.calls, handlers |-> c.completed, notes |-> NoNotes,
                         auto |-> auto_response_enabled, was_streaming |-> is_streaming]


\* the test of resolve_emergency (line 255)
resolve_matches_mut(current, recs, emergency_id) == current # 0

resolve_matches(current, recs, emergency_id) ==
    current # 0 /\ recs[current].id = emergency_id

\* EmergencyDispatcher.resolve_emergency
resolve_emergency(emergency_id, resolution_notes) ==
    IF resolve_matches(current_emergency, records, emergency_id)
    THEN /\ records' = [records EXCEPT ![current_emergency] =
                           [@ EXCEPT !.status = "resolved",
                                     !.resolution_notes = resolution_notes]]
         /\ is_streaming' = stop_stream(is_streaming)
         /\ current_emergency' = 0
         /\ UNCHANGED emergency_history
         /\ last' = [op |-> "resolve", caller |-> "api", ok |-> TRUE, threat |-> 0,
                     id |-> emergency_id, rec |-> current_emergency,
                     cur |-> current_emergency, calls |-> <<>>, handlers |-> <<>>,
                     notes |-> resolution_notes, auto |-> auto_response_enabled,
                     was_streaming |-> is_streaming]
    ELSE /\ UNCHANGED <<records, current_emergency, emergency_history, is_streaming>>
         /\ last' = [op |-> "resolve", caller |-> "api", ok |-> FALSE, threat |-> 0,
                     id |-> emergency_id, rec |-> 0, cur |-> current_emergency,
                     calls |-> <<>>, handlers |-> <<>>, notes |-> resolution_notes,
                     auto |-> auto_response_enabled, was_streaming |-> is_streaming]

\* EmergencyDispatcher.get_current_emergency: the copy of the current record, or {}
get_current_emergency == IF current_emergency # 0 THEN records[current_emergency] ELSE EmptyDict

\* ids a caller passes to resolve_emergency: the id of a record created in
\* the session, or one the session never generates
UnknownId == <<-1, 0>>

EmergencyIds == { records[i].id : i \in DOMAIN records } \cup {UnknownId}

ResolutionNotes == {"false alarm"}

\* ------------------------------------------------------------- main cycle
NoCycle == [sensor_data |-> EmptyDict, vision_data |-> EmptyDict, held |-> SAFE,
            new |-> SAFE, handled |-> FALSE, dispatched |-> FALSE, prev |-> SAFE,
            feedback |-> None, pattern |-> "", haptic_ok |-> TRUE]

\* HapticController.threat_feedback: the pattern it hands to
\* _activate_pattern, "" when it returns without activating one
patterns == (1 :> "gentle_pulse") @@ (2 :> "rapid_pulse") @@ (3 :> "continuous_buzz")

feedback_pattern(level) ==
    IF level = 0 THEN "" ELSE DictGet(patterns, level, "gentle_pulse")

\* whether an exception leaves threat_feedback when the activation has
\* failed: the try block of lines 33-50 catches it and logs
feedback_raises_mut(ok) == ~ok

feedback_raises(ok) == FALSE

\* the comparison of _process_cycle (line 189)
threat_changed_mut(new_threat_level, held) == new_threat_level > held

threat_changed(new_threat_level, held) == new_threat_level # held

\* an exception leaves _handle_threat_change and _process_cycle: no dispatch,
\* the held level is not assigned
abandon_cycle(c) ==
    /\ UNCHANGED <<records, current_emergency, emergency_history, is_streaming, failures,
                   last, threat_level>>
    /\ cycle' = c
    /\ pc' = "sleep"

\* the rest of _handle_threat_change after the haptic feedback (lines 235-245)
\* and of _process_cycle (lines 192-193)
finish_cycle(c) ==
    /\ IF c.handled /\ c.new >= EMERGENCY
       THEN \E out \in Outcomes(emergency_contacts) :
                dispatch_emergency("cycle", c.new, FloatTs, out)
       ELSE UNCHANGED <<records, current_emergency, emergency_history, is_streaming,
                        failures, last>>
    /\ cycle' = [c EXCEPT !.dispatched = c.handled /\ c.new >= EMERGENCY]
    /\ threat_level' = c.new
    /\ pc' = "sleep"

\* VisionGloveSystem._process_cycle up to the haptic activation delay, or to
\* its end when the cycle does not reach the delay
process_cycle(sensor_data, vision_data) ==
    /\ pc = "sleep"
    /\ cycles < MaxCycles
    /\ LET new == analyze_threat_level(sensor_data, vision_data, person_threshold)
           c == [sensor_data |-> sensor_data, vision_data |-> vision_data,
                 held |-> threat_level, new |-> new,
                 handled |-> threat_changed(new, threat_level),
                 dispatched |-> FALSE, prev |-> cycle.new,
                 feedback |-> IF threat_changed(new, threat_level) /\ haptic_controller
                              THEN new ELSE None,
                 pattern |-> IF threat_changed(new, threat_level) /\ haptic_controller
                             THEN feedback_pattern(new) ELSE "",
                 haptic_ok |-> TRUE]
       IN  IF c.pattern # ""
           THEN \* suspended in HapticController._activate_pattern
                /\ pc' = "haptic"
                /\ cycle' = c
                /\ UNCHANGED <<threat_level, records, current_emergency,
                               emergency_history, is_streaming, failures, last>>
           ELSE finish_cycle(c)
    /\ cycles' = cycles + 1
    /\ UNCHANGED <<person_threshold, haptic_controller, emergency_contacts, police_number,
                   stream_enabled, auto_response_enabled, str_hash>>

\* a cycle on any evidence
ProcessCycle ==
    /\ \E sensor_data \in SensorDicts, vision_data \in VisionDicts :
         process_cycle(sensor_data, vision_data)
    /\ UNCHANGED extVars

\* the cycle resumes after the haptic activation delay, or with the
\* exception the activation raises
HapticDone ==
    /\ pc = "haptic"
    /\ \E ok \in BOOLEAN :
         IF feedback_raises(ok) THEN abandon_cycle([cycle EXCEPT !.haptic_ok = ok])
         ELSE finish_cycle([cycle EXCEPT !.haptic_ok = ok])
    /\ UNCHANGED <<cycles, person_threshold, haptic_controller, emergency_contacts,
                   police_number, stream_enabled, auto_response_enabled, str_hash>>
    /\ UNCHANGED extVars

\* ---------------------------------------------------- dispatcher interface
Dispatch ==
    \E threat \in ThreatLevels, timestamp \in Datetimes, out \in Outcomes(emergency_contacts) :
        /\ Len(records) < MaxDispatches
        /\ dispatch_emergency("api", threat, timestamp, out)
        /\ UNCHANGED <<sysVars, emergency_contacts, police_number, stream_enabled,
                       auto_response_enabled, str_hash, extVars>>

Resolve ==
    \E emergency_id \in EmergencyIds, notes \in ResolutionNotes :
        /\ resolve_emergency(emergency_id, notes)
        /\ UNCHANGED <<sysVars, failures, emergency_contacts, police_number, stream_enabled,
                       auto_response_enabled, str_hash, extVars>>

\* EmergencyDispatcher.set_auto_response
SetAutoResponse ==
    \E enabled \in BOOLEAN :
        /\ auto_response_enabled' = enabled
        /\ UNCHANGED <<sysVars, emergency_contacts, police_number, stream_enabled,
                       records, current_emergency, emergency_history, is_streaming,
                       str_hash, failures, last, extVars>>

\* --------------------------------------------------------- specifications
NoCall == [op |-> "none", caller |-> "api", ok |-> TRUE, threat |-> 0, id |-> <<>>,
           rec |-> 0, cur |-> 0, calls |-> <<>>, handlers |-> <<>>, notes |-> NoNotes,
           auto |-> TRUE, was_streaming |-> FALSE]

NoStatus == [called |-> FALSE, raised |-> FALSE, running |-> FALSE, uptime |-> 0,
             threat_level |-> SAFE, last_update |-> None]

\* SensorManager.__init__ and VisionProcessor.__init__
InitSensors ==
    /\ latest_data = EmptyDict
    /\ latest_analysis = EmptyDict
    /\ calibrating = {}
    /\ fed = {}

\* a caller that holds nothing
NoReader == [kind |-> "none", top |-> EmptyDict, refs |-> <<>>, writes |-> 0]

NoPending == [call |-> Call("", "", "", TRUE), rec |-> 0, waited |-> 0]

NoLoop == [pc |-> "none", current_time |-> None, caught |-> 0]

\* ConfigManager.config as validate reads it: the sections present, the type
\* and value of sensors.sample_rate (None for a key that is absent), the type
\* and length of vision.resolution
RequiredSections == {"system", "sensors", "vision", "haptics", "communications"}

SampleRates == {[type |-> "int", value |-> 100], [type |-> "float", value |-> 50],
                [type |-> "int", value |-> 0], [type |-> "float", value |-> -1],
                [type |-> "str", value |-> 0], [type |-> "NoneType", value |-> 0]}

Resolutions == {[type |-> "list", len |-> 2], [type |-> "list", len |-> 3],
                [type |-> "tuple", len |-> 2], [type |-> "NoneType", len |-> 0]}

\* _load_default_config
default_config == [sections |-> RequiredSections,
                   sample_rate |-> [type |-> "int", value |-> 100],
                   resolution |-> [type |-> "list", len |-> 2]]

\* the default configuration with at most one section removed and any
\* sample rate and resolution a configuration file can put in its place
ConfigShapes == [sections : {RequiredSections} \cup {RequiredSections \ {s} : s \in RequiredSections},
                 sample_rate : SampleRates,
                 resolution : Resolutions]

\* ConfigManager.validate
validate_mut(c) ==
    /\ RequiredSections \subseteq c.sections
    /\ c.sample_rate.type \in {"int", "float"}
    /\ c.resolution.type = "list" /\ c.resolution.len = 2

validate(c) ==
    /\ RequiredSections \subseteq c.sections
    /\ c.sample_rate.type \in {"int", "float"} /\ ~(c.sample_rate.value <= 0)
    /\ c.resolution.type = "list" /\ c.resolution.len = 2

\* ------------------------------------------------------ configuration store
\* A ConfigManager on a path of its own, as the tests construct it.  Its
\* config is a tree of Python dicts: a value is the pair of its Python type
\* and its content, the content of a dict is the function from its keys.  A
\* dotted key is the list key.split('.') of its segments.
DictValue(items) == [kind |-> "dict", v |-> items]

IntValue(n) == [kind |-> "int", v |-> n]

StrValue(s) == [kind |-> "str", v |-> s]

ListValue(s) == [kind |-> "list", v |-> s]

TupleValue(s) == [kind |-> "tuple", v |-> s]

\* a value json cannot encode (a set, a datetime, an object)
SetObject == [kind |-> "set", v |-> 0]

NoneValue == [kind |-> "NoneType", v |-> 0]

\* the exceptions a lookup or an item assignment raises
KeyOrTypeError == [kind |-> "raised", v |-> 0]

\* _load_default_config: two of its sections, one key each
load_default_config ==
    DictValue([system |-> DictValue([name |-> StrValue("VisionGlove")]),
          vision |-> DictValue([resolution |-> ListValue(<<640, 480>>)])])

\* the dotted keys and the values of the calls followed: keys of the tests,
\* keys of the defaults, a section, a key below a string
ConfigKeys == {<<"test", "value">>, <<"nested", "deep", "value">>, <<"system">>,
               <<"system", "name">>, <<"system", "name", "x">>,
               <<"vision", "resolution">>}

SetValues == {IntValue(42), TupleValue(<<640, 480>>), SetObject}

GetDefaults == {NoneValue, IntValue(7)}

\* the loop `for k in keys: value = value[k]` of get: indexing a str, a
\* list, a tuple or an int with a str raises TypeError, a dict without the
\* key raises KeyError
RECURSIVE lookup(_, _)
lookup(value, keys) ==
    IF keys = <<>> THEN value
    ELSE IF value.kind = "dict" /\ Head(keys) \in DOMAIN value.v
         THEN lookup(value.v[Head(keys)], Tail(keys))
         ELSE KeyOrTypeError

\* ConfigManager.get
config_get(tree, keys, default) ==
    LET value == lookup(tree, keys)
    IN  IF value.kind = "raised" THEN default ELSE value

\* ConfigManager.set from config_ref on: the tree after the call, or the
\* TypeError that `k not in config_ref`, `config_ref[k] = {}` or
\* `config_ref = config_ref[k]` raises when config_ref is not a dict.  A
\* section the loop has created is a dict, so a call that raises has
\* created none
RECURSIVE config_set(_, _, _)
config_set(config_ref, keys, value) ==
    IF config_ref.kind # "dict" THEN KeyOrTypeError
    ELSE IF Len(keys) = 1
    THEN DictValue((keys[1] :> value) @@ config_ref.v)
    ELSE LET k == Head(keys)
             child == IF k \in DOMAIN config_ref.v THEN config_ref.v[k] ELSE DictValue(EmptyDict)
             below == config_set(child, Tail(keys), value)
         IN  IF below.kind = "raised" THEN KeyOrTypeError
             ELSE DictValue((k :> below) @@ config_ref.v)

\* json.dump: a tuple is written as an array, like a list; a value json
\* cannot encode raises TypeError after the text before it has been written
RECURSIVE json_dump(_)
json_dump(value) ==
    CASE value.kind = "dict" ->
             LET items == [k \in DOMAIN value.v |-> json_dump(value.v[k])]
             IN  IF \E k \in DOMAIN items : items[k].kind = "raised"
                 THEN KeyOrTypeError ELSE [kind |-> "object", v |-> items]
      [] value.kind \in {"list", "tuple"} -> [kind |-> "array", v |-> value.v]
      [] value.kind = "int" -> [kind |-> "number", v |-> value.v]
      [] value.kind = "str" -> [kind |-> "string", v |-> value.v]
      [] value.kind = "NoneType" -> [kind |-> "null", v |-> 0]
      [] OTHER -> KeyOrTypeError

\* the file a failed json.dump leaves: the start of a document
Truncated == [kind |-> "truncated", v |-> 0]

\* json.load: an array is read as a list
RECURSIVE json_load(_)
json_load(doc) ==
    CASE doc.kind = "object" -> DictValue([k \in DOMAIN doc.v |-> json_load(doc.v[k])])
      [] doc.kind = "array" -> ListValue(doc.v)
      [] doc.kind = "number" -> IntValue(doc.v)
      [] doc.kind = "string" -> StrValue(doc.v)
      [] doc.kind = "null" -> NoneValue
      [] OTHER -> KeyOrTypeError

\* ConfigManager.save_config: the file it leaves and what it returns
save_config(tree) ==
    LET doc == json_dump(tree)
    IN  IF doc.kind = "raised" THEN [file |-> Truncated, ok |-> FALSE]
        ELSE [file |-> doc, ok |-> TRUE]

\* ConfigManager.load_config: self.config.update(file_config) replaces the
\* top-level sections the file holds
load_config(tree, file) ==
    LET file_config == json_load(file)
    IN  IF file_config.kind # "dict" THEN tree
        ELSE DictValue(file_config.v @@ tree.v)

NoConfigCall == [op |-> "none", keys |-> <<>>, value |-> NoneValue, raised |-> FALSE]

NoSaved == [called |-> FALSE, ok |-> FALSE, config |-> DictValue(EmptyDict)]

\* ConfigManager.__init__ on a path where no file exists: the defaults,
\* saved
NewConfigManager ==
    [config |-> load_default_config, file |-> save_config(load_default_config).file,
     sets |-> 0, out |-> NoConfigCall,
     saved |-> [called |-> TRUE, ok |-> save_config(load_default_config).ok,
                config |-> load_default_config],
     second |-> [constructed |-> FALSE, config |-> DictValue(EmptyDict), saved |-> NoSaved]]

NoStart == [called |-> FALSE, result |-> FALSE]

NoBackground == [loops |-> {}, stopped |-> FALSE]

\* a calibrate call: idle, or suspended in its sampling loop with the
\* readings taken so far
NoCal == [pc |-> "idle", samples |-> 0, readings |-> <<>>]

\* the outcome of the last read or calibrate call of a channel
NoOut == [op |-> "none", ok |-> TRUE, value |-> 0, ended |-> None, profile |-> <<>>,
          error |-> "", during |-> FALSE]

\* PressureSensor.__init__; pressures and the sensitivity are in tenths
max_pressure == 10000

NewPressure == [is_initialized |-> FALSE, baseline |-> 0, sensitivity |-> 10,
                touch_threshold |-> 1, is_touching |-> FALSE, touch_start_time |-> None,
                cal |-> NoCal, calibrations |-> 0, out |-> NoOut]

\* FlexSensor.__init__; flex values are in tenths
NewFlex == [is_initialized |-> FALSE, baseline |-> 0, min_value |-> 0, max_value |-> 10,
            cal |-> NoCal, calibrations |-> 0, out |-> NoOut]

\* IMUSensor.__init__; angles in degrees, quaternion components in
\* thousandths, accelerations in hundredths of m/s^2, rates in degrees/s
NewIMU == [is_initialized |-> FALSE,
           accel_bias |-> <<0, 0, 0>>, gyro_bias |-> <<0, 0, 0>>, mag_bias |-> <<0, 0, 0>>,
           orientation |-> <<0, 0, 0>>, quaternion |-> <<1000, 0, 0, 0>>,
           velocity |-> <<0, 0, 0>>, position |-> <<0, 0, 0>>,
           last_update_time |-> None, reads |-> 0, fresh |-> FALSE,
           cal |-> NoCal, calibrations |-> 0, out |-> NoOut]

NoHand == [called |-> FALSE, flex_values |-> <<>>, gestures |-> {}]

InitChannels ==
    /\ hand = NoHand
    /\ pressure = NewPressure
    /\ flex = NewFlex
    /\ imu = NewIMU

\* a system that has been started: the loop task exists, the dispatcher has
\* been constructed; the lifecycle is not followed
InitStarted ==
    /\ is_running = TRUE
    /\ start_time = 0
    /\ last_update = None
    /\ subsystems = {"emergency_dispatcher"}
    /\ main_loop = NoLoop
    /\ clock = 0
    /\ status = NoStatus
    /\ pending = NoPending
    /\ InitSensors
    /\ reader = NoReader
    /\ config = default_config
    /\ started = NoStart
    /\ manager = NewConfigManager
    /\ background = NoBackground
    /\ InitChannels

\* VisionGloveSystem.__init__ and initialize
InitSystem ==
    /\ threat_level = SAFE
    /\ pc = "sleep"
    /\ cycle = NoCycle
    /\ cycles = 0
    /\ InitStarted

\* EmergencyDispatcher.__init__ and LivestreamService.__init__
InitDispatcher ==
    /\ auto_response_enabled = TRUE
    /\ records = <<>>
    /\ current_emergency = 0
    /\ emergency_history = <<>>
    /\ is_streaming = FALSE
    /\ failures = 0
    /\ last = NoCall

\* a session of calls on the dispatcher, under every configuration followed
Init ==
    /\ InitSystem
    /\ person_threshold = default_person_threshold
    /\ haptic_controller = TRUE
    /\ InitDispatcher
    /\ emergency_contacts \in ContactLists
    /\ police_number \in PoliceNumbers
    /\ stream_enabled \in BOOLEAN
    /\ str_hash \in StrHashes

Next == Dispatch \/ Resolve \/ SetAutoResponse

Spec == Init /\ [][Next]_vars

\* the main loop, with the default communications configuration
InitCycle ==
    /\ InitSystem
    /\ person_threshold \in 1..MaxThreshold
    /\ haptic_controller \in BOOLEAN
    /\ InitDispatcher
    /\ emergency_contacts = <<"">>
    /\ police_number = ""
    /\ stream_enabled = TRUE
    /\ str_hash \in StrHashes

NextCycle == ProcessCycle \/ HapticDone

SpecCycle == InitCycle /\ [][NextCycle]_vars

\* ------------------------------------------------- a session with a long past
\* the number of dispatches after which the history is one short of full
HistoryFill == max_history_size - 1

\* the record and the observation that dispatch_emergency leaves for a
\* dispatch at SAFE (no handler runs, nothing is logged)
SafeRecord(timestamp, h) ==
    [id |-> generate_emergency_id(timestamp, h), timestamp |-> timestamp,
     threat_level |-> SAFE, actions_taken |-> <<>>, status |-> "active",
     resolution_notes |-> NoNotes]

\* the timestamp the callers of the past dispatches passed, and the levels
\* of the dispatches that follow: one whose record reaches the history, one
\* (EMERGENCY) whose record does not
PastTimestamp == [kind |-> "datetime", sec |-> 0, us |-> 0]

LateThreats == {CAUTION, EMERGENCY}

\* the dispatcher after HistoryFill dispatches at SAFE, none resolved: every
\* record is in the history, the last one is current
InitHistory ==
    /\ InitSystem
    /\ person_threshold = default_person_threshold
    /\ haptic_controller = TRUE
    /\ auto_response_enabled = TRUE
    /\ emergency_contacts = <<"">>
    /\ police_number = ""
    /\ stream_enabled = FALSE
    /\ str_hash \in StrHashes
    /\ \E timestamp \in {PastTimestamp} :
         /\ records = [i \in 1..HistoryFill |-> SafeRecord(timestamp, str_hash)]
         /\ last = [op |-> "dispatch", caller |-> "api", ok |-> TRUE, threat |-> SAFE,
                    id |-> generate_emergency_id(timestamp, str_hash), rec |-> HistoryFill,
                    cur |-> HistoryFill - 1, calls |-> <<>>, handlers |-> <<>>,
                    notes |-> NoNotes, auto |-> TRUE, was_streaming |-> FALSE]
    /\ current_emergency = HistoryFill
    /\ emergency_history = [i \in 1..HistoryFill |-> i]
    /\ is_streaming = FALSE
    /\ failures = 0

\* the dispatches that follow
DispatchMore ==
    \E threat \in LateThreats, timestamp \in {PastTimestamp},
       out \in Outcomes(emergency_contacts) :
        /\ Len(records) < HistoryFill + MaxLate
        /\ dispatch_emergency("api", threat, timestamp, out)
        /\ UNCHANGED <<sysVars, emergency_contacts, police_number, stream_enabled,
                       auto_response_enabled, str_hash, extVars>>

NextHistory == DispatchMore \/ Resolve

SpecHistory == InitHistory /\ [][NextHistory]_vars


\* ---------------------------------------------------------------- lifecycle
\* what VisionGloveSystem.initialize can come to: success; the configuration
\* does not validate; the camera cannot be opened (vision enabled)
InitOutcomes == {"ok", "config_invalid", "camera_failed"}

\* the configuration flags sensors.enabled, vision.enabled, haptics.enabled
EnabledFlags == [sensors : BOOLEAN, vision : BOOLEAN, haptics : BOOLEAN]

\* the subsystem attributes that initialize has assigned when it returns
initialize(before, enabled, outcome) ==
    IF outcome = "config_invalid" THEN before
    ELSE before
           \cup (IF enabled.sensors THEN {"sensor_manager"} ELSE {})
           \cup (IF enabled.vision THEN {"vision_processor"} ELSE {})
           \cup (IF outcome = "ok" THEN {"emergency_dispatcher"} ELSE {})

\* the loop tasks initialize has created when it returns:
\* SensorManager.initialize and VisionProcessor.initialize end with
\* asyncio.create_task of their loop and is_active = True
created_loops(enabled, outcome) ==
    IF outcome = "config_invalid" THEN {}
    ELSE (IF enabled.sensors THEN {"sensor_manager"} ELSE {})
           \cup (IF enabled.vision /\ outcome = "ok" THEN {"vision_processor"} ELSE {})

\* the loops left when stop has returned: stop returns at once when the
\* system is not running, else it calls the stop of every subsystem that is
\* not None, which sets is_active = False
stop_loops(loops, running, present) == IF running THEN loops \ present ELSE loops

\* VisionGloveSystem.start, once: a start that follows a stop is not followed
Start ==
    /\ ~is_running
    /\ main_loop.pc = "none"
    /\ \E enabled \in EnabledFlags, outcome \in InitOutcomes :
         /\ (outcome = "config_invalid") <=> ~validate(config)
         /\ (outcome = "camera_failed") => enabled.vision
         /\ started' = [called |-> TRUE, result |-> (outcome = "ok")]
         /\ subsystems' = initialize(subsystems, enabled, outcome)
         /\ background' = [loops |-> background.loops \cup created_loops(enabled, outcome),
                           stopped |-> FALSE]
         /\ haptic_controller' = (haptic_controller \/ (outcome = "ok" /\ enabled.haptics))
         /\ IF outcome = "ok"
            THEN /\ is_running' = TRUE
                 /\ start_time' = clock
                 /\ main_loop' = [main_loop EXCEPT !.pc = "created"]
            ELSE UNCHANGED <<is_running, start_time, main_loop>>
    /\ UNCHANGED <<threat_level, person_threshold, pc, cycle, cycles, dispVars, failures,
                   last, last_update, clock, status, pending, sensVars, reader, config,
                   manager, chanVars, hand>>

\* VisionGloveSystem.stop
Stop ==
    /\ is_running' = FALSE
    /\ is_streaming' = IF is_running /\ "emergency_dispatcher" \in subsystems
                       THEN stop_stream(is_streaming) ELSE is_streaming
    /\ background' = [loops |-> stop_loops(background.loops, is_running, subsystems),
                      stopped |-> TRUE]
    /\ UNCHANGED <<sysVars, emergency_contacts, police_number, stream_enabled,
                   auto_response_enabled, records, current_emergency, emergency_history,
                   str_hash, failures, last, start_time, last_update, subsystems,
                   main_loop, clock, status, pending, sensVars, reader, cfgVars, chanVars,
                   hand>>

\* the delay the loop task is in at each of its suspensions
loop_delay(at) == CASE at = "sleep" -> SleepDelay
                    [] at = "backoff" -> BackoffDelay
                    [] at = "cycle" -> HapticDelay
                    [] OTHER -> 0

\* where the except branch of _main_loop (lines 167-169) takes the loop
after_exception_mut == "ended"

after_exception == "backoff"

\* what the cycle reads: {} from a subsystem that is None
sensor_reads == IF "sensor_manager" \in subsystems THEN SensorDicts ELSE {EmptyDict}

vision_reads == IF "vision_processor" \in subsystems THEN VisionDicts ELSE {EmptyDict}

\* _main_loop: the task runs for the first time or resumes from one of its
\* two sleeps, tests is_running and runs a cycle, up to the cycle's
\* suspension or its end.  With the person threshold missing from the
\* configuration, _analyze_threat_level compares an int with None and raises
\* TypeError
MainLoopResume ==
    /\ main_loop.pc \in {"created", "sleep", "backoff"}
    /\ clock' = clock + loop_delay(main_loop.pc)
    /\ IF ~is_running
       THEN /\ main_loop' = [main_loop EXCEPT !.pc = "ended"]
            /\ UNCHANGED <<sysVars, dispVars, failures, last, last_update>>
       ELSE IF person_threshold = None
            THEN /\ cycles < MaxCycles
                 /\ cycles' = cycles + 1
                 /\ main_loop' = [pc |-> after_exception, current_time |-> clock',
                                  caught |-> main_loop.caught + 1]
                 /\ UNCHANGED <<threat_level, person_threshold, haptic_controller, pc,
                                cycle, dispVars, failures, last, last_update>>
            ELSE /\ \E sensor_data \in sensor_reads, vision_data \in vision_reads :
                      process_cycle(sensor_data, vision_data)
                 /\ main_loop' = [main_loop EXCEPT
                                    !.pc = IF pc' = "haptic" THEN "cycle" ELSE "sleep",
                                    !.current_time = clock']
                 /\ last_update' = IF pc' = "haptic" THEN last_update ELSE clock'
    /\ UNCHANGED <<is_running, start_time, subsystems, status, pending, sensVars, reader, newVars>>

\* the cycle resumes after the haptic activation delay and ends
MainLoopHapticDone ==
    /\ main_loop.pc = "cycle"
    /\ pc = "haptic"
    /\ clock' = clock + loop_delay(main_loop.pc)
    /\ \E ok \in BOOLEAN :
         IF feedback_raises(ok)
         THEN /\ abandon_cycle([cycle EXCEPT !.haptic_ok = ok])
              /\ main_loop' = [main_loop EXCEPT !.pc = after_exception, !.caught = @ + 1]
              /\ UNCHANGED last_update
         ELSE /\ finish_cycle([cycle EXCEPT !.haptic_ok = ok])
              /\ last_update' = main_loop.current_time
              /\ main_loop' = [main_loop EXCEPT !.pc = "sleep"]
    /\ UNCHANGED <<cycles, person_threshold, haptic_controller, emergency_contacts,
                   police_number, stream_enabled, auto_response_enabled, str_hash,
                   is_running, start_time, subsystems, status, pending, sensVars, reader, newVars>>

\* the subsystem classes whose __init__ binds an instance attribute is_active,
\* which hides their method is_active: calling it calls a bool, TypeError
IsActiveShadowed == {"sensor_manager", "vision_processor", "emergency_dispatcher"}

\* VisionGloveSystem.get_status
get_status ==
    IF subsystems \cap IsActiveShadowed # {}
    THEN [NoStatus EXCEPT !.called = TRUE, !.raised = TRUE]
    ELSE [called |-> TRUE, raised |-> FALSE, running |-> is_running,
          uptime |-> IF start_time # None THEN clock - start_time ELSE 0,
          threat_level |-> threat_level, last_update |-> last_update]

GetStatus ==
    /\ status' = get_status
    /\ UNCHANGED <<sysVars, dispVars, failures, last, is_running, start_time, last_update,
                   subsystems, main_loop, clock, pending, sensVars, reader, newVars>>

\* a system from its construction on, with the default communications
\* configuration and the person threshold present or missing
InitLoop ==
    /\ threat_level = SAFE
    /\ pc = "sleep"
    /\ cycle = NoCycle
    /\ cycles = 0
    /\ person_threshold \in {default_person_threshold, None}
    /\ haptic_controller = FALSE
    /\ InitDispatcher
    /\ emergency_contacts = <<"">>
    /\ police_number = ""
    /\ stream_enabled = TRUE
    /\ str_hash \in StrHashes
    /\ is_running = FALSE
    /\ start_time = None
    /\ last_update = None
    /\ subsystems = {}
    /\ main_loop = NoLoop
    /\ clock = 0
    /\ status = NoStatus
    /\ pending = NoPending
    /\ InitSensors
    /\ reader = NoReader
    /\ config \in ConfigShapes
    /\ started = NoStart
    /\ manager = NewConfigManager
    /\ background = NoBackground
    /\ InitChannels

NextLoop == Start \/ Stop \/ MainLoopResume \/ MainLoopHapticDone \/ GetStatus

SpecLoop == InitLoop /\ [][NextLoop]_vars

\* ---------------------------------------------------- transports that hang
\* The dispatcher awaits send_sms and start_emergency_stream directly (lines
\* 145, 155, 170, 185), with no timeout around the await.  A transport behind
\* these calls that does not answer leaves the dispatch suspended in the
\* await: the record exists and is current, the entries of the earlier
\* attempts are logged, the rest of the dispatch has not run.
AttemptsBefore(calls, k) == Cardinality({ j \in 1..(k - 1) : IsAttempt(calls[j]) })

StreamingBefore(calls, k, streaming) ==
    streaming \/ \E j \in 1..(k - 1) : calls[j].port = "start_emergency_stream"

\* EmergencyDispatcher.dispatch_emergency up to a transport call, the k-th
\* call of the dispatch, that does not answer
DispatchHung ==
    \E threat \in ALERT..EMERGENCY, timestamp \in Datetimes,
       out \in Outcomes(emergency_contacts) :
        LET c == run_handlers(threat, is_streaming, emergency_contacts, police_number,
                              auto_response_enabled, stream_enabled, out)
            n == Len(records) + 1
        IN  \E k \in DOMAIN c.calls :
              /\ IsAttempt(c.calls[k])
              /\ pending = NoPending
              /\ Len(records) < MaxDispatches
              /\ failures' = failures + FailedCalls(SubSeq(c.calls, 1, k - 1))
              /\ failures' <= MaxFailures
              /\ records' = Append(records,
                     [id |-> generate_emergency_id(timestamp, str_hash),
                      timestamp |-> timestamp, threat_level |-> threat,
                      actions_taken |-> SubSeq(c.actions, 1, 1 + AttemptsBefore(c.calls, k)),
                      status |-> "active", resolution_notes |-> NoNotes])
              /\ current_emergency' = n
              /\ is_streaming' = StreamingBefore(c.calls, k, is_streaming)
              /\ pending' = [call |-> c.calls[k], rec |-> n, waited |-> 0]
              /\ UNCHANGED <<sysVars, emergency_contacts, police_number, stream_enabled,
                             auto_response_enabled, emergency_history, str_hash, last,
                             lifeVars, sensVars, reader, newVars>>

\* time passes while the call is awaited; nothing in the dispatcher or in
\* the services ends the await
TimePasses ==
    /\ pending # NoPending
    /\ pending.waited < MaxWait
    /\ pending' = [pending EXCEPT !.waited = @ + 1]
    /\ UNCHANGED <<sysVars, dispVars, failures, last, lifeVars, sensVars, reader, newVars>>

InitTransport ==
    /\ InitSystem
    /\ person_threshold = default_person_threshold
    /\ haptic_controller = TRUE
    /\ InitDispatcher
    /\ emergency_contacts = <<"c1">>
    /\ police_number = "911"
    /\ stream_enabled = TRUE
    /\ str_hash \in StrHashes

NextTransport == Dispatch \/ DispatchHung \/ TimePasses

SpecTransport == InitTransport /\ [][NextTransport]_vars

\* ------------------------------------------------------ sensors and vision
\* what one collection reads: whether all five flex values are above the
\* closed threshold (0.7), and the norm of the acceleration, one value from
\* each side of the thresholds 10 and 15
Magnitudes == {0, 12, 16}

emergency_magnitude == 10

unusual_threshold == 15

\* SensorManager._detect_gestures, for five closed fingers or fewer
detect_gestures(fist) == IF fist THEN {"fist"} ELSE {}

\* SensorManager._detect_unusual_movement
detect_unusual_movement(magnitude) == magnitude > unusual_threshold

\* SensorManager._detect_emergency_gesture
detect_emergency_gesture(processed) ==
    "fist" \in processed.gestures /\ processed.movement_magnitude > emergency_magnitude

\* SensorManager._process_sensor_data: the classifier
process_sensor_data(fist, magnitude) ==
    LET p == [gestures |-> detect_gestures(fist), movement_magnitude |-> magnitude,
              unusual_movement |-> detect_unusual_movement(magnitude)]
    IN  [gestures |-> p.gestures, movement_magnitude |-> p.movement_magnitude,
         unusual_movement |-> p.unusual_movement,
         emergency_gesture |-> detect_emergency_gesture(p)]

\* the channel types and the calibration routines: one per channel type
\* (FlexSensor, IMUSensor, PressureSensor .calibrate) and
\* SensorManager.calibrate, which samples every channel
Channels == {"flex", "imu", "pressure"}

Routines == {"pressure", "manager"}

ChannelsOf(routine) == IF routine = "manager" THEN Channels ELSE {routine}

UnderCalibration(running) == UNION { ChannelsOf(r) : r \in running }

\* a calibration routine takes its first sample and sleeps (pressure_sensor.py
\* 240-248, sensor_manager.py 263-279)
CalibrateBegin ==
    \E r \in Routines \ calibrating :
        /\ calibrating' = calibrating \cup {r}
        /\ UNCHANGED <<sysVars, dispVars, failures, last, lifeVars, pending, reader, newVars,
                       latest_data, latest_analysis, fed>>

\* the routine takes its last sample and sets its parameters
CalibrateEnd ==
    \E r \in calibrating :
        /\ calibrating' = calibrating \ {r}
        /\ UNCHANGED <<sysVars, dispVars, failures, last, lifeVars, pending, reader, newVars,
                       latest_data, latest_analysis, fed>>

\* SensorManager._collect_sensor_data, one turn of _data_collection_loop:
\* every sensor is read, the readings are classified, the snapshot replaces
\* latest_data.  No read suspends, so the turn is one step
CollectSensorData ==
    \E fist \in BOOLEAN, magnitude \in Magnitudes :
        /\ latest_data' = [timestamp |-> Now, flex_sensors |-> fist, imu |-> magnitude,
                           pressure_sensors |-> 0,
                           processed |-> process_sensor_data(fist, magnitude)]
        /\ fed' = Channels \cap UnderCalibration(calibrating)
        /\ UNCHANGED <<sysVars, dispVars, failures, last, lifeVars, pending, reader, newVars,
                       latest_analysis, calibrating>>

\* VisionProcessor._process_frame_cycle with _analyze_frame and
\* _generate_summary: the count of persons is summary.person_count
AnalyzeFrame ==
    \E n \in 0..MaxPersons :
        /\ latest_analysis' = [timestamp |-> Now, persons |-> n, gestures |-> 0,
                               threats |-> 0,
                               summary |-> [person_count |-> n, gesture_count |-> 0,
                                            threat_level |-> 0]]
        /\ UNCHANGED <<sysVars, dispVars, failures, last, lifeVars, pending, reader, newVars,
                       latest_data, calibrating, fed>>

\* SensorManager.get_latest_data and VisionProcessor.process_frame: a
\* top-level copy, or {}
get_latest_data == latest_data

process_frame == latest_analysis

\* a cycle of the main loop on what the two subsystems hold
ProcessCycleLive ==
    /\ process_cycle(get_latest_data, process_frame)
    /\ UNCHANGED extVars

InitLive ==
    /\ InitSystem
    /\ person_threshold = default_person_threshold
    /\ haptic_controller = TRUE
    /\ InitDispatcher
    /\ emergency_contacts = <<"">>
    /\ police_number = ""
    /\ stream_enabled = TRUE
    /\ str_hash \in StrHashes

NextLive == CollectSensorData \/ AnalyzeFrame \/ CalibrateBegin \/ CalibrateEnd
              \/ ProcessCycleLive

SpecLive == InitLive /\ [][NextLive]_vars

\* ------------------------------------------------------------------ readers
\* What a query returns shares Python objects with the dispatcher.
\* get_current_emergency returns dict.copy() of the current record: a new
\* dict (top) whose values are the record's own, so its actions_taken is the
\* record's list.  get_emergency_history returns a slice of the history
\* list: a new list of the record dicts themselves.  refs names the records
\* whose objects the caller holds.
\* EmergencyDispatcher.get_current_emergency
GetCurrentEmergency ==
    /\ reader' = IF current_emergency # 0
                 THEN [kind |-> "current", top |-> records[current_emergency],
                       refs |-> <<current_emergency>>, writes |-> reader.writes]
                 ELSE [kind |-> "empty", top |-> EmptyDict, refs |-> <<>>,
                       writes |-> reader.writes]
    /\ UNCHANGED <<sysVars, dispVars, failures, last, lifeVars, pending, sensVars, newVars>>

\* emergency_history[-limit:]
last_of(history, limit) ==
    IF Len(history) > limit
    THEN SubSeq(history, Len(history) - limit + 1, Len(history)) ELSE history

\* EmergencyDispatcher.get_emergency_history, with the default limit
GetEmergencyHistory ==
    /\ reader' = [kind |-> "history", top |-> EmptyDict,
                  refs |-> last_of(emergency_history, default_limit),
                  writes |-> reader.writes]
    /\ UNCHANGED <<sysVars, dispVars, failures, last, lifeVars, pending, sensVars, newVars>>

\* the value as the caller sees it now
seen(rd, recs) ==
    CASE rd.kind = "current" ->
             <<[rd.top EXCEPT !.actions_taken = recs[rd.refs[1]].actions_taken]>>
      [] rd.kind = "history" -> [i \in DOMAIN rd.refs |-> recs[rd.refs[i]]]
      [] OTHER -> <<>>

\* the caller changes the value it holds: it appends to an action log, or it
\* assigns the status of a record dict
ReaderWrites ==
    /\ reader.kind \in {"current", "history"}
    /\ reader.writes < MaxWrites
    /\ \E i \in DOMAIN reader.refs, field \in {"actions_taken", "status"} :
         IF field = "actions_taken"
         THEN \* the list is the record's own
              /\ records' = [records EXCEPT ![reader.refs[i]].actions_taken =
                                 Append(@, [action |-> "reader_entry", timestamp |-> Now])]
              /\ reader' = [reader EXCEPT !.writes = @ + 1]
         ELSE IF reader.kind = "current"
              THEN \* the key is assigned in the copy
                   /\ reader' = [reader EXCEPT !.writes = @ + 1, !.top.status = "edited"]
                   /\ UNCHANGED records
              ELSE \* the dict is the record itself
                   /\ records' = [records EXCEPT ![reader.refs[i]].status = "edited"]
                   /\ reader' = [reader EXCEPT !.writes = @ + 1]
    /\ UNCHANGED <<sysVars, emergency_contacts, police_number, stream_enabled,
                   auto_response_enabled, current_emergency, emergency_history,
                   is_streaming, str_hash, failures, last, lifeVars, pending, sensVars, newVars>>

InitReaders ==
    /\ InitSystem
    /\ person_threshold = default_person_threshold
    /\ haptic_controller = TRUE
    /\ InitDispatcher
    /\ emergency_contacts = <<"c1">>
    /\ police_number = "911"
    /\ stream_enabled = TRUE
    /\ str_hash \in StrHashes

NextReaders == Dispatch \/ Resolve \/ GetCurrentEmergency \/ GetEmergencyHistory
                 \/ ReaderWrites

SpecReaders == InitReaders /\ [][NextReaders]_vars

\* ---------------------------------------------------------------- sensor channels
\* One pressure channel, one flex channel and the IMU unit.  The channels
\* are independent objects: a behaviour follows one of them, the other two
\* stay as constructed.  Floats are fixed-point integers (tenths for
\* pressures, flex values and the sensitivity), divisions round down.
\* read and set_sensitivity contain no suspension point and are one step
\* each; calibrate suspends in asyncio.sleep after each sample.

min(a, b) == IF a <= b THEN a ELSE b

\* what _read_hardware can return: the placeholder of the pressure channel
\* is max(0, ...), that of the flex channel is clamped into [0, 1]
RawPressures == {0, 1, 1100}

RawFlex == {0, 3, 10}

\* the values set_sensitivity is called with
SensitivityRequests == {0, 10, 1000}

\* the sample counts calibrate is called with
SampleCounts == 0..MaxSamples

RECURSIVE Sum(_)
Sum(s) == IF s = <<>> THEN 0 ELSE Head(s) + Sum(Tail(s))

\* sum(readings) / len(readings); None stands for the ZeroDivisionError
mean(readings) == IF Len(readings) = 0 THEN None ELSE Sum(readings) \div Len(readings)

\* x ** 0.5 and math.sqrt, rounded down
RECURSIVE bisect(_, _, _)
bisect(lo, hi, n) ==
    IF hi - lo <= 1 THEN lo
    ELSE LET mid == (lo + hi) \div 2
         IN  IF mid * mid <= n THEN bisect(mid, hi, n) ELSE bisect(lo, mid, n)

isqrt(n) == bisect(0, min(n + 1, 46340), n)

\* the population standard deviation of the readings
std(readings, m) ==
    isqrt(Sum([i \in DOMAIN readings |-> (readings[i] - m) * (readings[i] - m)])
            \div Len(readings))


\* PressureSensor._apply_calibration
pressure_apply_calibration_mut(p, raw_value) ==
    LET corrected == ((raw_value - p.baseline) * p.sensitivity) \div 10
    IN  max(0, corrected)

pressure_apply_calibration(p, raw_value) ==
    LET corrected == ((raw_value - p.baseline) * p.sensitivity) \div 10
    IN  max(0, min(max_pressure, corrected))

\* PressureSensor._update_touch_state
update_touch_state_mut(p, value, current_time) ==
    IF value > p.touch_threshold
    THEN IF ~p.is_touching
         THEN [p EXCEPT !.is_touching = TRUE, !.touch_start_time = current_time]
         ELSE p
    ELSE IF p.is_touching
         THEN [p EXCEPT !.is_touching = FALSE, !.touch_start_time = None]
         ELSE p

update_touch_state(p, value, current_time) ==
    IF value >= p.touch_threshold
    THEN IF ~p.is_touching
         THEN [p EXCEPT !.is_touching = TRUE, !.touch_start_time = current_time]
         ELSE p
    ELSE IF p.is_touching
         THEN [p EXCEPT !.is_touching = FALSE, !.touch_start_time = None]
         ELSE p

\* PressureSensor._get_touch_duration
get_touch_duration(p, now) ==
    IF ~p.is_touching \/ p.touch_start_time = None THEN 0 ELSE now - p.touch_start_time

\* PressureSensor.read; `ended` is the duration that the touch-ended branch
\* logs, `profile` the calibration profile the reading was computed with
pressure_read(p, raw_value, now) ==
    IF ~p.is_initialized
    THEN [p EXCEPT !.out = [NoOut EXCEPT !.op = "read", !.ok = FALSE,
                                         !.error = "not initialized"]]
    ELSE LET calibrated_value == pressure_apply_calibration(p, raw_value)
             q == update_touch_state(p, calibrated_value, now)
         IN  [q EXCEPT !.out = [op |-> "read", ok |-> TRUE, value |-> calibrated_value,
                                ended |-> IF p.is_touching /\ ~q.is_touching
                                          THEN get_touch_duration(p, now) ELSE None,
                                profile |-> <<p.baseline, p.touch_threshold>>, error |-> "",
                                during |-> (p.cal.pc = "sampling")]]

\* PressureSensor.set_sensitivity
set_sensitivity(sensitivity) == max(1, min(100, sensitivity))

CalOut(ok) == [NoOut EXCEPT !.op = "calibrate", !.ok = ok]

\* PressureSensor.calibrate from the end of its sampling loop on (lines
\* 249-268): no suspension point
pressure_calibrate_finish_mut(p, readings) ==
    IF mean(readings) = None
    THEN [p EXCEPT !.cal = NoCal, !.out = CalOut(FALSE)]
    ELSE [p EXCEPT !.baseline = mean(readings),
                   !.cal = NoCal, !.calibrations = @ + 1, !.out = CalOut(TRUE)]

pressure_calibrate_finish(p, readings) ==
    IF mean(readings) = None
    THEN [p EXCEPT !.cal = NoCal, !.out = CalOut(FALSE)]
    ELSE LET baseline == mean(readings)
             baseline_std == std(readings, baseline)
         IN  [p EXCEPT !.baseline = baseline,
                       !.touch_threshold = baseline + 3 * baseline_std,
                       !.cal = NoCal, !.calibrations = @ + 1, !.out = CalOut(TRUE)]

\* a calibrate call runs to its first suspension: the first sample is taken
begin_sampling(ch, samples, reading) ==
    [ch EXCEPT !.cal = [pc |-> "sampling", samples |-> samples, readings |-> <<reading>>]]

\* the call resumes from asyncio.sleep and takes the next sample
next_sample(ch, reading) == [ch EXCEPT !.cal.readings = Append(@, reading)]

PressureInitialize ==
    /\ flex = NewFlex /\ imu = NewIMU
    /\ ~pressure.is_initialized
    /\ pressure' = [pressure EXCEPT !.is_initialized = TRUE]
    /\ UNCHANGED <<sysVars, dispVars, failures, last, lifeVars, pending, sensVars, reader,
                   cfgVars, background, hand, flex, imu>>

PressureRead ==
    /\ flex = NewFlex /\ imu = NewIMU
    /\ \E raw_value \in RawPressures : pressure' = pressure_read(pressure, raw_value, clock)
    /\ UNCHANGED <<sysVars, dispVars, failures, last, lifeVars, pending, sensVars, reader,
                   cfgVars, background, hand, flex, imu>>

PressureSetSensitivity ==
    /\ flex = NewFlex /\ imu = NewIMU
    /\ \E sensitivity \in SensitivityRequests :
         pressure' = [pressure EXCEPT !.sensitivity = set_sensitivity(sensitivity)]
    /\ UNCHANGED <<sysVars, dispVars, failures, last, lifeVars, pending, sensVars, reader,
                   cfgVars, background, hand, flex, imu>>

PressureCalibrate ==
    /\ flex = NewFlex /\ imu = NewIMU
    /\ pressure.cal.pc = "idle"
    /\ pressure.calibrations < MaxCalibrations
    /\ \E samples \in SampleCounts, reading \in RawPressures :
         pressure' = IF samples = 0 THEN pressure_calibrate_finish(pressure, <<>>)
                     ELSE begin_sampling(pressure, samples, reading)
    /\ UNCHANGED <<sysVars, dispVars, failures, last, lifeVars, pending, sensVars, reader,
                   cfgVars, background, hand, flex, imu>>

PressureCalibrateResume ==
    /\ pressure.cal.pc = "sampling"
    /\ \E reading \in RawPressures :
         pressure' = IF Len(pressure.cal.readings) < pressure.cal.samples
                     THEN next_sample(pressure, reading)
                     ELSE pressure_calibrate_finish(pressure, pressure.cal.readings)
    /\ UNCHANGED <<sysVars, dispVars, failures, last, lifeVars, pending, sensVars, reader,
                   cfgVars, background, hand, flex, imu>>

\* PressureSensor.stop
PressureStop ==
    /\ pressure.is_initialized
    /\ pressure' = [pressure EXCEPT !.is_initialized = FALSE, !.is_touching = FALSE,
                                    !.touch_start_time = None]
    /\ UNCHANGED <<sysVars, dispVars, failures, last, lifeVars, pending, sensVars, reader,
                   cfgVars, background, hand, flex, imu>>

\* FlexSensor._apply_calibration
flex_apply_calibration(f, raw_value) ==
    LET corrected == raw_value - f.baseline
        normalized == IF f.max_value # f.min_value
                      THEN ((corrected - f.min_value) * 10) \div (f.max_value - f.min_value)
                      ELSE corrected
    IN  max(0, min(10, normalized))

\* FlexSensor.read
flex_read(f, raw_value) ==
    IF ~f.is_initialized
    THEN [f EXCEPT !.out = [NoOut EXCEPT !.op = "read", !.ok = FALSE,
                                         !.error = "not initialized"]]
    ELSE [f EXCEPT !.out = [op |-> "read", ok |-> TRUE,
                            value |-> flex_apply_calibration(f, raw_value), ended |-> None,
                            profile |-> <<f.baseline, f.min_value, f.max_value>>,
                            error |-> "", during |-> (f.cal.pc = "sampling")]]

\* FlexSensor.calibrate from the end of its sampling loop on (lines 163-179)
flex_calibrate_finish_mut(f, readings) ==
    IF mean(readings) = None
    THEN [f EXCEPT !.baseline = 0, !.min_value = -1, !.max_value = 5,
                   !.cal = NoCal, !.calibrations = @ + 1, !.out = CalOut(TRUE)]
    ELSE [f EXCEPT !.baseline = mean(readings),
                   !.min_value = mean(readings) - 1,
                   !.max_value = mean(readings) + 5,
                   !.cal = NoCal, !.calibrations = @ + 1, !.out = CalOut(TRUE)]

flex_calibrate_finish(f, readings) ==
    IF mean(readings) = None
    THEN [f EXCEPT !.cal = NoCal, !.out = CalOut(FALSE)]
    ELSE [f EXCEPT !.baseline = mean(readings),
                   !.min_value = mean(readings) - 1,
                   !.max_value = mean(readings) + 5,
                   !.cal = NoCal, !.calibrations = @ + 1, !.out = CalOut(TRUE)]

FlexInitialize ==
    /\ pressure = NewPressure /\ imu = NewIMU
    /\ ~flex.is_initialized
    /\ flex' = [flex EXCEPT !.is_initialized = TRUE]
    /\ UNCHANGED <<sysVars, dispVars, failures, last, lifeVars, pending, sensVars, reader,
                   cfgVars, background, hand, pressure, imu>>

FlexRead ==
    /\ pressure = NewPressure /\ imu = NewIMU
    /\ \E raw_value \in RawFlex : flex' = flex_read(flex, raw_value)
    /\ UNCHANGED <<sysVars, dispVars, failures, last, lifeVars, pending, sensVars, reader,
                   cfgVars, background, hand, pressure, imu>>

FlexCalibrate ==
    /\ pressure = NewPressure /\ imu = NewIMU
    /\ flex.cal.pc = "idle"
    /\ flex.calibrations < MaxCalibrations
    /\ \E samples \in SampleCounts, reading \in RawFlex :
         flex' = IF samples = 0 THEN flex_calibrate_finish(flex, <<>>)
                     ELSE begin_sampling(flex, samples, reading)
    /\ UNCHANGED <<sysVars, dispVars, failures, last, lifeVars, pending, sensVars, reader,
                   cfgVars, background, hand, pressure, imu>>

FlexCalibrateResume ==
    /\ flex.cal.pc = "sampling"
    /\ \E reading \in RawFlex : flex' = IF Len(flex.cal.readings) < flex.cal.samples
                     THEN next_sample(flex, reading)
                     ELSE flex_calibrate_finish(flex, flex.cal.readings)
    /\ UNCHANGED <<sysVars, dispVars, failures, last, lifeVars, pending, sensVars, reader,
                   cfgVars, background, hand, pressure, imu>>

\* FlexSensor.stop
FlexStop ==
    /\ flex.is_initialized
    /\ flex' = [flex EXCEPT !.is_initialized = FALSE]
    /\ UNCHANGED <<sysVars, dispVars, failures, last, lifeVars, pending, sensVars, reader,
                   cfgVars, background, hand, pressure, imu>>

\* datetime.now() advances between two calls
ChannelTick ==
    /\ clock < MaxTime
    /\ clock' = clock + 1
    /\ UNCHANGED <<sysVars, dispVars, failures, last, is_running, start_time, last_update,
                   subsystems, main_loop, status, pending, sensVars, reader, newVars>>


\* ---------------------------------------------------------------- IMU unit
\* Angles are whole degrees, quaternion components thousandths,
\* accelerations hundredths of m/s^2; angular rates are in degrees per
\* second, the unit in which `gyro * dt * 180 / math.pi` is `rate * dt`.

\* what the accelerometer, the gyroscope (range +-2000 degrees/s) and the
\* magnetometer return: a glove held on its side and turning.  The corrected
\* values vary with the biases that calibrations leave
AccelVectors == {<<0, 981, 0>>}

GyroVectors == {<<1900, 0, -1800>>}

MagVectors == {<<2000, 500, 4000>>}

gravity == 981

ImuReadings == [accel : AccelVectors, gyro : GyroVectors, mag : MagVectors]

\* IMUSensor._apply_bias_correction
apply_bias_correction(raw_data, bias) == [i \in DOMAIN raw_data |-> raw_data[i] - bias[i]]

abs(x) == IF x < 0 THEN -x ELSE x

\* math.atan2 in degrees, to the nearest of the eight compass directions
atan2(y, x) ==
    IF 2 * abs(y) <= abs(x)
    THEN (IF x >= 0 THEN 0 ELSE 180)
    ELSE IF 2 * abs(x) <= abs(y)
         THEN (IF y > 0 THEN 90 ELSE -90)
         ELSE IF x > 0 THEN (IF y > 0 THEN 45 ELSE -45)
                       ELSE (IF y > 0 THEN 135 ELSE -135)

\* the two while loops of lines 231-234
RECURSIVE normalize(_)
normalize(angle) ==
    IF angle > 180 THEN normalize(angle - 360)
    ELSE IF angle < -180 THEN normalize(angle + 360)
    ELSE angle

\* 1000 * sin(a / 2) for a in 0..360 degrees (Bhaskara's rational form)
half_sine(a) == (4000 * a * (360 - a)) \div (162000 - a * (360 - a))

\* math.sin(math.radians(angle) * 0.5) and math.cos(...), angle in -180..180
sin_half(angle) == IF angle >= 0 THEN half_sine(angle) ELSE -half_sine(-angle)

cos_half(angle) == half_sine(angle + 180)

mul3(a, b, c) == (((a * b) \div 1000) * c) \div 1000

\* IMUSensor._euler_to_quaternion
euler_to_quaternion(orientation) ==
    LET cr == cos_half(orientation[1])
        sr == sin_half(orientation[1])
        cp == cos_half(orientation[2])
        sp == sin_half(orientation[2])
        cy == cos_half(orientation[3])
        sy == sin_half(orientation[3])
    IN  <<mul3(cr, cp, cy) + mul3(sr, sp, sy),
          mul3(sr, cp, cy) - mul3(cr, sp, sy),
          mul3(cr, sp, cy) + mul3(sr, cp, sy),
          mul3(cr, cp, sy) - mul3(sr, sp, cy)>>

\* the angles that lines 213-234 of _update_orientation leave
new_orientation(u, accel, gyro, dt) ==
    LET accel_roll == atan2(accel[2], accel[3])
        accel_pitch == atan2(-accel[1], isqrt(accel[2] * accel[2] + accel[3] * accel[3]))
        gyro_roll == u.orientation[1] + (gyro[1] * dt) \div 10
        gyro_pitch == u.orientation[2] + (gyro[2] * dt) \div 10
        gyro_yaw == u.orientation[3] + (gyro[3] * dt) \div 10
    IN  <<normalize((98 * gyro_roll + 2 * accel_roll) \div 100),
          normalize((98 * gyro_pitch + 2 * accel_pitch) \div 100),
          normalize(gyro_yaw)>>

\* IMUSensor._update_orientation; dt is in tenths of a second
update_orientation_mut(u, accel, gyro, dt) ==
    [u EXCEPT !.orientation = new_orientation(u, accel, gyro, dt)]

update_orientation(u, accel, gyro, dt) ==
    LET orientation == new_orientation(u, accel, gyro, dt)
    IN  [u EXCEPT !.orientation = orientation,
                  !.quaternion = euler_to_quaternion(orientation)]

\* IMUSensor._update_position
update_position(u, accel, dt) ==
    LET gravity_removed == <<accel[1], accel[2], accel[3] - gravity>>
        velocity == [i \in 1..3 |-> u.velocity[i] + (gravity_removed[i] * dt) \div 10]
    IN  [u EXCEPT !.velocity = [i \in 1..3 |-> (velocity[i] * 99) \div 100],
                  !.position = [i \in 1..3 |-> @[i] + (velocity[i] * dt) \div 10]]

\* IMUSensor.read
imu_read_mut(u, raw, current_time) ==
    LET accel == apply_bias_correction(raw.accel, u.accel_bias)
        gyro == apply_bias_correction(raw.gyro, u.gyro_bias)
        v == IF u.last_update_time # None
             THEN LET dt == current_time - u.last_update_time
                  IN  update_position(update_orientation(u, accel, gyro, dt), accel, dt)
             ELSE u
    IN  [v EXCEPT !.last_update_time = current_time, !.reads = @ + 1, !.fresh = FALSE,
                  !.out = [NoOut EXCEPT !.op = "read"]]

imu_read(u, raw, current_time) ==
    IF ~u.is_initialized
    THEN [u EXCEPT !.out = [NoOut EXCEPT !.op = "read", !.ok = FALSE,
                                         !.error = "IMU sensor not initialized"]]
    ELSE LET accel == apply_bias_correction(raw.accel, u.accel_bias)
             gyro == apply_bias_correction(raw.gyro, u.gyro_bias)
             v == IF u.last_update_time # None
                  THEN LET dt == current_time - u.last_update_time
                       IN  update_position(update_orientation(u, accel, gyro, dt), accel, dt)
                  ELSE u
         IN  [v EXCEPT !.last_update_time = current_time, !.reads = @ + 1, !.fresh = FALSE,
                       !.out = [NoOut EXCEPT !.op = "read",
                                             !.profile = <<u.accel_bias, u.gyro_bias, u.mag_bias>>,
                                             !.during = (u.cal.pc = "sampling")]]

\* the mean of one axis over the samples; None for the ZeroDivisionError
axis_mean(samples, i) == mean([k \in DOMAIN samples |-> samples[k][i]])

bias(samples) == [i \in 1..3 |-> axis_mean(samples, i)]

\* IMUSensor.calibrate from the end of its sampling loop on (lines 325-354)
imu_calibrate_finish(u, readings) ==
    IF Len(readings) = 0
    THEN [u EXCEPT !.cal = NoCal, !.out = CalOut(FALSE)]
    ELSE LET accel_bias == bias([k \in DOMAIN readings |-> readings[k].accel])
         IN  [u EXCEPT !.accel_bias = [accel_bias EXCEPT ![3] = @ - gravity],
                       !.gyro_bias = bias([k \in DOMAIN readings |-> readings[k].gyro]),
                       !.mag_bias = bias([k \in DOMAIN readings |-> readings[k].mag]),
                       !.cal = NoCal, !.calibrations = @ + 1, !.out = CalOut(TRUE)]

\* IMUSensor.initialize
IMUInitialize ==
    /\ pressure = NewPressure /\ flex = NewFlex
    /\ ~imu.is_initialized
    /\ imu' = [imu EXCEPT !.is_initialized = TRUE, !.last_update_time = clock,
                          !.fresh = TRUE]
    /\ UNCHANGED <<sysVars, dispVars, failures, last, lifeVars, pending, sensVars, reader,
                   cfgVars, background, hand, pressure, flex>>

IMURead ==
    /\ pressure = NewPressure /\ flex = NewFlex
    /\ imu.is_initialized => imu.reads < MaxReads
    /\ \E raw \in ImuReadings : imu' = imu_read(imu, raw, clock)
    /\ UNCHANGED <<sysVars, dispVars, failures, last, lifeVars, pending, sensVars, reader,
                   cfgVars, background, hand, pressure, flex>>

IMUCalibrate ==
    /\ pressure = NewPressure /\ flex = NewFlex
    /\ imu.cal.pc = "idle"
    /\ imu.calibrations < MaxCalibrations
    /\ \E samples \in SampleCounts, reading \in ImuReadings :
         imu' = IF samples = 0 THEN imu_calibrate_finish(imu, <<>>)
                     ELSE begin_sampling(imu, samples, reading)
    /\ UNCHANGED <<sysVars, dispVars, failures, last, lifeVars, pending, sensVars, reader,
                   cfgVars, background, hand, pressure, flex>>

IMUCalibrateResume ==
    /\ imu.cal.pc = "sampling"
    /\ \E reading \in ImuReadings : imu' = IF Len(imu.cal.readings) < imu.cal.samples
                     THEN next_sample(imu, reading)
                     ELSE imu_calibrate_finish(imu, imu.cal.readings)
    /\ UNCHANGED <<sysVars, dispVars, failures, last, lifeVars, pending, sensVars, reader,
                   cfgVars, background, hand, pressure, flex>>

\* IMUSensor.reset_position
IMUResetPosition ==
    /\ pressure = NewPressure /\ flex = NewFlex
    /\ imu' = [imu EXCEPT !.position = <<0, 0, 0>>, !.velocity = <<0, 0, 0>>]
    /\ UNCHANGED <<sysVars, dispVars, failures, last, lifeVars, pending, sensVars, reader,
                   cfgVars, background, hand, pressure, flex>>

\* IMUSensor.stop
IMUStop ==
    /\ imu.is_initialized
    /\ imu' = [imu EXCEPT !.is_initialized = FALSE]
    /\ UNCHANGED <<sysVars, dispVars, failures, last, lifeVars, pending, sensVars, reader,
                   cfgVars, background, hand, pressure, flex>>

\* the channels of a sensor manager, from their construction on
InitChannelsSpec ==
    /\ InitSystem
    /\ person_threshold = default_person_threshold
    /\ haptic_controller = FALSE
    /\ InitDispatcher
    /\ emergency_contacts = <<"">>
    /\ police_number = ""
    /\ stream_enabled = TRUE
    /\ str_hash = CHOOSE h \in StrHashes : TRUE

NextChannels ==
    \/ PressureInitialize \/ PressureRead \/ PressureSetSensitivity \/ PressureCalibrate
    \/ PressureCalibrateResume \/ PressureStop
    \/ FlexInitialize \/ FlexRead \/ FlexCalibrate \/ FlexCalibrateResume \/ FlexStop
    \/ IMUInitialize \/ IMURead \/ IMUCalibrate \/ IMUCalibrateResume \/ IMUResetPosition
    \/ IMUStop
    \/ ChannelTick

SpecChannels == InitChannelsSpec /\ [][NextChannels]_vars


\* ---------------------------------------------------------------- gesture classifier
\* the flex values the classifier is handed (tenths): below, at and above
\* the open threshold 0.3 and the closed threshold 0.7
FlexLevels == {2, 3, 7, 8}

FlexVectors == UNION {[1..n -> FlexLevels] : n \in 0..MaxFlexValues}

closed_threshold == 7

open_threshold == 3

\* SensorManager._detect_gestures on a list of flex values (thumb first)
detect_gestures_of_mut(flex_values) ==
    IF Len(flex_values) < 5 THEN {}
    ELSE LET closed_fingers ==
                 Cardinality({i \in DOMAIN flex_values : flex_values[i] >= closed_threshold})
             open_fingers ==
                 Cardinality({i \in DOMAIN flex_values : flex_values[i] < open_threshold})
         IN  IF closed_fingers = 5 THEN {"fist"}
             ELSE IF open_fingers = 5 THEN {"open_hand"}
             ELSE IF closed_fingers = 4 /\ flex_values[2] < open_threshold THEN {"pointing"}
             ELSE IF /\ closed_fingers = 3
                     /\ flex_values[2] < open_threshold
                     /\ flex_values[5] < open_threshold
                  THEN {"peace_sign"}
                  ELSE {}

detect_gestures_of(flex_values) ==
    IF Len(flex_values) < 5 THEN {}
    ELSE LET closed_fingers ==
                 Cardinality({i \in DOMAIN flex_values : flex_values[i] > closed_threshold})
             open_fingers ==
                 Cardinality({i \in DOMAIN flex_values : flex_values[i] < open_threshold})
         IN  IF closed_fingers = 5 THEN {"fist"}
             ELSE IF open_fingers = 5 THEN {"open_hand"}
             ELSE IF closed_fingers = 4 /\ flex_values[2] < open_threshold THEN {"pointing"}
             ELSE IF /\ closed_fingers = 3
                     /\ flex_values[2] < open_threshold
                     /\ flex_values[5] < open_threshold
                  THEN {"peace_sign"}
                  ELSE {}

DetectGestures ==
    /\ ~hand.called
    /\ \E flex_values \in FlexVectors :
         hand' = [called |-> TRUE, flex_values |-> flex_values,
                  gestures |-> detect_gestures_of(flex_values)]
    /\ UNCHANGED <<sysVars, dispVars, failures, last, lifeVars, pending, sensVars, reader,
                   cfgVars, background, chanVars>>

NextGestures == DetectGestures

SpecGestures == InitChannelsSpec /\ [][NextGestures]_vars


\* ---------------------------------------------------------------- snapshots
\* One turn of the collection loop of a manager whose five flex channels and
\* five pressure channels read without error and whose IMU unit is followed
\* with its state.  data_history, which nothing else reads, is left out.

\* the calibrated flex values read from the five fingers (tenths): a fist, an
\* open hand, a pointing hand
HandShapes == {<<8, 8, 8, 8, 8>>, <<2, 2, 2, 2, 2>>, <<8, 2, 8, 8, 8>>}

\* what the IMU hardware returns for a hand at rest, a hand that is shaken
\* and a hand that strikes: accelerations of norm 9.81, 12 and 16 m/s^2
SnapshotAccels == {<<0, 0, 981>>, <<0, 1200, 0>>, <<1600, 0, 0>>}

SnapshotReadings == [accel : SnapshotAccels, gyro : GyroVectors, mag : MagVectors]

\* np.linalg.norm and IMUSensor._vector_magnitude
norm(v) == isqrt(v[1] * v[1] + v[2] * v[2] + v[3] * v[3])

\* the dict IMUSensor.read returns, with the keys of the source
imu_reading(u, raw, current_time) ==
    IF ~u.is_initialized
    THEN [timestamp |-> Now, status |-> "error", error |-> "IMU sensor not initialized"]
    ELSE LET accel == apply_bias_correction(raw.accel, u.accel_bias)
             gyro == apply_bias_correction(raw.gyro, u.gyro_bias)
             mag == apply_bias_correction(raw.mag, u.mag_bias)
             v == imu_read(u, raw, current_time)
         IN  [timestamp |-> Now,
              raw_data |-> [accelerometer |-> raw.accel, gyroscope |-> raw.gyro,
                            magnetometer |-> raw.mag],
              calibrated_data |-> [acceleration |-> accel, angular_velocity |-> gyro,
                                   magnetic_field |-> mag],
              orientation |-> [euler |-> v.orientation, quaternion |-> v.quaternion],
              motion |-> [velocity |-> v.velocity, position |-> v.position,
                          acceleration_magnitude |-> norm(accel),
                          angular_velocity_magnitude |-> norm(gyro)],
              status |-> "ok"]

\* SensorManager._detect_unusual_movement on an acceleration vector
\* (hundredths of m/s^2)
unusual_movement_of(acceleration) ==
    IF Len(acceleration) # 3 THEN FALSE
    ELSE norm(acceleration) > 100 * unusual_threshold

\* SensorManager._detect_emergency_gesture on the processed dict
emergency_gesture_of(processed_data) ==
    /\ "fist" \in DictGet(processed_data, "gestures", {})
    /\ DictGet(processed_data, "movement_magnitude", 0) > 100 * emergency_magnitude

\* imu_data.get('acceleration', [0, 0, 0]) of line 157: the key is looked up
\* at the top level of the dict the IMU read returned
imu_acceleration(imu_data) == DictGet(imu_data, "acceleration", <<0, 0, 0>>)

\* SensorManager._process_sensor_data
process_raw_data(raw_data) ==
    LET flex_values == [i \in DOMAIN raw_data.flex_sensors |->
                            DictGet(raw_data.flex_sensors[i], "value", 0)]
        pressure_values == [i \in DOMAIN raw_data.pressure_sensors |->
                                DictGet(raw_data.pressure_sensors[i], "value", 0)]
        p1 == [finger_positions |-> flex_values,
               hand_closure |-> IF flex_values # <<>> THEN mean(flex_values) ELSE 0,
               gestures |-> detect_gestures_of(flex_values)]
        acceleration == imu_acceleration(raw_data.imu)
        p2 == IF DOMAIN raw_data.imu # {}
              THEN p1 @@ [acceleration |-> acceleration,
                          rotation |-> DictGet(raw_data.imu, "rotation", <<0, 0, 0>>),
                          movement_magnitude |-> norm(acceleration),
                          unusual_movement |-> unusual_movement_of(acceleration)]
              ELSE p1
        p3 == p2 @@ [pressure_points |-> pressure_values,
                     grip_strength |-> IF pressure_values # <<>> THEN mean(pressure_values)
                                       ELSE 0]
    IN  p3 @@ [emergency_gesture |-> emergency_gesture_of(p3)]

\* SensorManager._collect_sensor_data with the dicts its sensors return
CollectSnapshot ==
    /\ imu.is_initialized => imu.reads < MaxReads
    /\ \E shape \in HandShapes, raw \in SnapshotReadings :
         LET data == [timestamp |-> Now,
                      flex_sensors |-> [i \in 1..5 |-> [value |-> shape[i], status |-> "ok"]],
                      imu |-> imu_reading(imu, raw, clock),
                      pressure_sensors |-> [i \in 1..5 |-> [value |-> 0, status |-> "ok"]]]
         IN  /\ latest_data' = data @@ [processed |-> process_raw_data(data)]
             /\ imu' = imu_read(imu, raw, clock)
    /\ fed' = Channels \cap UnderCalibration(calibrating)
    /\ UNCHANGED <<sysVars, dispVars, failures, last, lifeVars, pending, reader,
                   latest_analysis, calibrating, cfgVars, background, hand, pressure, flex>>

NextSnapshots == IMUInitialize \/ IMUStop \/ CollectSnapshot \/ ChannelTick

SpecSnapshots == InitChannelsSpec /\ [][NextSnapshots]_vars

\* ------------------------------------------------- configuration store calls
\* ConfigManager.set
ConfigSet ==
    /\ manager.sets < MaxSets
    /\ \E keys \in ConfigKeys, value \in SetValues :
         LET tree == config_set(manager.config, keys, value)
         IN  manager' = [manager EXCEPT
                 !.config = IF tree.kind = "raised" THEN @ ELSE tree,
                 !.sets = @ + 1,
                 !.out = [op |-> "set", keys |-> keys, value |-> value,
                          raised |-> (tree.kind = "raised")]]
    /\ UNCHANGED <<sysVars, dispVars, failures, last, lifeVars, pending, sensVars, reader,
                   config, started, chanVars, hand, background>>

\* ConfigManager.get with a default
ConfigGet ==
    /\ \E keys \in ConfigKeys, default \in GetDefaults :
         manager' = [manager EXCEPT
             !.out = [op |-> "get", keys |-> keys, default |-> default,
                      value |-> config_get(manager.config, keys, default),
                      raised |-> FALSE]]
    /\ UNCHANGED <<sysVars, dispVars, failures, last, lifeVars, pending, sensVars, reader,
                   config, started, chanVars, hand, background>>

\* ConfigManager.save_config
SaveConfig ==
    /\ LET r == save_config(manager.config)
       IN  manager' = [manager EXCEPT
               !.file = r.file,
               !.saved = [called |-> TRUE, ok |-> r.ok, config |-> manager.config],
               !.out = [op |-> "save", keys |-> <<>>, value |-> NoneValue,
                        raised |-> ~r.ok]]
    /\ UNCHANGED <<sysVars, dispVars, failures, last, lifeVars, pending, sensVars, reader,
                   config, started, chanVars, hand, background>>

\* ConfigManager.__init__ of a second manager on the same path: the file
\* exists, so the defaults are updated from it
ConstructSecond ==
    /\ manager' = [manager EXCEPT
           !.second = [constructed |-> TRUE,
                       config |-> load_config(load_default_config, manager.file),
                       saved |-> manager.saved],
           !.out = [op |-> "construct", keys |-> <<>>, value |-> NoneValue,
                    raised |-> FALSE]]
    /\ UNCHANGED <<sysVars, dispVars, failures, last, lifeVars, pending, sensVars, reader,
                   config, started, chanVars, hand, background>>

NextConfig == ConfigSet \/ ConfigGet \/ SaveConfig \/ ConstructSecond

SpecConfig == InitChannelsSpec /\ [][NextConfig]_vars

\* -------------------------------------------------- the loop task scheduled
\* The event loop resumes the main loop task when its sleep is over
\* (asyncio.sleep of _main_loop and of _activate_pattern always complete), so
\* a resumption that stays possible is taken; start and stop are calls of
\* the application and carry no fairness
SpecLoopFair ==
    /\ SpecLoop
    /\ WF_vars(MainLoopResume)
    /\ WF_vars(MainLoopHapticDone)

\* ================================================================ claims

\* ---- C1 (SpecCycle) ----
\* the floors the evidence of a cycle triggers, read off the evidence
HasTrue(d, k) == k \in DOMAIN d /\ d[k] = TRUE

Floors(sensor_data, vision_data, threshold) ==
    {SAFE}
      \cup (IF "person_count" \in DOMAIN vision_data /\ vision_data.person_count >= threshold
            THEN {CAUTION} ELSE {})
      \cup (IF "person_count" \notin DOMAIN vision_data /\ 0 >= threshold THEN {CAUTION} ELSE {})
      \cup (IF HasTrue(sensor_data, "unusual_movement") THEN {ALERT} ELSE {})
      \cup (IF HasTrue(sensor_data, "emergency_gesture") THEN {EMERGENCY} ELSE {})

SetMax(S) == CHOOSE m \in S : \A x \in S : x <= m

WithEmergencyGesture(sensor_data) ==
    [k \in DOMAIN sensor_data \cup {"emergency_gesture"} |->
        IF k = "emergency_gesture" THEN TRUE ELSE sensor_data[k]]

\* C1: the level a cycle evaluates is the maximum of the floors its evidence
\* triggers (CAUTION for person_count >= person_threshold, ALERT for
\* unusual_movement, EMERGENCY for emergency_gesture, SAFE otherwise), it is
\* in 0..3, and the same evidence with emergency_gesture added evaluates to
\* no less than EMERGENCY
C1_EvaluatorIsMaxOfFloors ==
    cycles > 0 =>
        /\ cycle.new = SetMax(Floors(cycle.sensor_data, cycle.vision_data, person_threshold))
        /\ cycle.new \in SAFE..EMERGENCY
        /\ analyze_threat_level(WithEmergencyGesture(cycle.sensor_data), cycle.vision_data,
                                person_threshold) >= EMERGENCY

\* a cycle whose evidence triggers all three floors has evaluated EMERGENCY
C1_Witness ==
    /\ cycles > 0
    /\ HasTrue(cycle.sensor_data, "unusual_movement")
    /\ HasTrue(cycle.sensor_data, "emergency_gesture")
    /\ DictGet(cycle.vision_data, "person_count", 0) >= person_threshold
    /\ cycle.new = EMERGENCY

\* ---- C2 (SpecCycle) ----
\* C2: in every cycle the transition handler is invoked exactly when the
\* evaluated level differs from the held level, which is the level the
\* previous cycle evaluated; a cycle that follows a cycle at EMERGENCY and
\* evaluates EMERGENCY again makes no dispatch
C2_HandlerExactlyOnChange ==
    cycles > 0 =>
        /\ cycle.held = cycle.prev
        /\ cycle.handled <=> (cycle.new # cycle.prev)
        /\ cycle.dispatched => (cycle.new = EMERGENCY /\ cycle.prev # EMERGENCY)
        /\ (pc = "sleep" /\ cycle.new = EMERGENCY /\ cycle.prev # EMERGENCY) => cycle.dispatched

\* a second consecutive cycle at EMERGENCY has completed without invoking
\* the handler, after the first one dispatched
C2_Witness ==
    /\ cycles >= 2
    /\ pc = "sleep"
    /\ cycle.prev = EMERGENCY
    /\ cycle.new = EMERGENCY
    /\ ~cycle.handled
    /\ ~cycle.dispatched
    /\ last.op = "dispatch"
    /\ last.caller = "cycle"


\* ---- helpers for the dispatcher claims ----
IsDispatch == last.op = "dispatch"

\* positions of the calls of a dispatch made on a port by a handler
CallsOf(calls, handler, port) ==
    { i \in DOMAIN calls : calls[i].h = handler /\ calls[i].port = port }

NonEmptyContact(c) == c # ""

\* the configured contacts an alert addresses: stripped, blanks left out
ConfiguredContacts(contacts) ==
    SelectSeq([i \in DOMAIN contacts |-> strip(contacts[i])], NonEmptyContact)

IsSmsCall(call) == call.port = "send_sms"

Recipients(calls) == LET sms == SelectSeq(calls, IsSmsCall)
                     IN  [i \in DOMAIN sms |-> sms[i].to]

ThresholdHandlers == <<"caution", "alert", "emergency">>

\* ---- C3 (Spec) ----
\* C3: a dispatch at level L has run the handlers of the thresholds <= L to
\* their end, in the order caution, alert, emergency, and no other
C3_HandlersUpToLevel ==
    IsDispatch => last.handlers = SubSeq(ThresholdHandlers, 1, last.threat)

\* ---- C4 (Spec) ----
\* C4: after a dispatch at EMERGENCY (police number configured, automatic
\* response on) exactly one SMS to the police number was attempted and the
\* livestream is active, whatever it was before
C4_EmergencyPoliceAndStream ==
    (IsDispatch /\ last.threat = EMERGENCY /\ police_number # "" /\ last.auto) =>
        /\ Cardinality({ i \in DOMAIN last.calls :
                            IsSmsCall(last.calls[i]) /\ last.calls[i].to = police_number }) = 1
        /\ is_streaming

\* ---- C5 (Spec) ----
AttemptsExpected(threat, auto, contacts, police, enabled) ==
    [contacts |-> IF auto THEN ConfiguredContacts(contacts) ELSE <<>>,
     stream   |-> IF enabled THEN 1 ELSE 0,
     police   |-> IF threat >= EMERGENCY /\ auto /\ police # "" THEN 1 ELSE 0]

\* C5: in a dispatch at ALERT or EMERGENCY the attempts made do not depend
\* on the outcome of any SMS: every configured contact is sent to, in order,
\* the livestream start is attempted (when enabled), and at EMERGENCY the
\* police SMS is attempted (when configured), also after a failed send
C5_FailureIsolation ==
    (IsDispatch /\ last.rec # 0 /\ last.threat >= ALERT) =>
        LET e == AttemptsExpected(last.threat, last.auto, emergency_contacts, police_number,
                                  stream_enabled)
            alert == SelectSeq(last.calls, LAMBDA c : c.h = "alert")
        IN  /\ Recipients(alert) = e.contacts
            /\ Cardinality(CallsOf(last.calls, "alert", "start_emergency_stream")) = e.stream
            /\ Cardinality(CallsOf(last.calls, "emergency", "send_sms")) = e.police

\* the SMS to the first contact failed; the second contact, the livestream
\* start and the police SMS were attempted after it
C5_Witness ==
    /\ IsDispatch
    /\ last.threat = EMERGENCY
    /\ Len(last.calls) >= 6
    /\ last.calls[3] = Call("alert", "send_sms", "c1", FALSE)
    /\ last.calls[4].to = "c2"
    /\ last.calls[5].port = "start_emergency_stream"
    /\ last.calls[6] = Call("emergency", "send_sms", "911", last.calls[6].ok)

\* ---- C6 (Spec) ----
HasOutcome(entry) == "success" \in DOMAIN entry

\* the log entries with a success flag answer the attempts one for one, in order
LogAnswersCalls(actions, calls) ==
    LET att == SelectSeq(calls, IsAttempt)
        ent == SelectSeq(actions, HasOutcome)
    IN  /\ Len(ent) = Len(att)
        /\ \A i \in DOMAIN att :
             /\ "timestamp" \in DOMAIN ent[i]
             /\ ent[i].success = att[i].ok
             /\ (att[i].port = "send_sms") =>
                    ("recipient" \in DOMAIN ent[i] /\ ent[i].recipient = att[i].to)
             /\ (att[i].port = "start_emergency_stream") => "recipient" \notin DOMAIN ent[i]

IsPrefix(a, b) == Len(a) <= Len(b) /\ SubSeq(b, 1, Len(a)) = a

\* C6: every SMS attempt and every livestream start attempt of a dispatch
\* adds exactly one entry with a timestamp and the success flag to the
\* record's actions_taken, in the order of the attempts and whether it
\* succeeded or failed; and no step removes or changes an entry of any
\* record's log
C6_LogAppendOnly ==
    [][ /\ \A i \in DOMAIN records :
             /\ i \in DOMAIN records'
             /\ IsPrefix(records[i].actions_taken, records'[i].actions_taken)
        /\ (Len(records') > Len(records)) =>
             LogAnswersCalls(records'[Len(records')].actions_taken, last'.calls)
      ]_vars

\* a dispatch logged a failed SMS attempt and went on to log later attempts
C6_Witness ==
    /\ IsDispatch
    /\ last.rec # 0
    /\ \E i \in DOMAIN records[last.rec].actions_taken :
         /\ HasOutcome(records[last.rec].actions_taken[i])
         /\ ~records[last.rec].actions_taken[i].success
         /\ i < Len(records[last.rec].actions_taken)

\* ---- C7 (Spec) ----
\* C7: resolve_emergency(id) called while the current record has that id
\* returns success, leaves that record resolved with the notes, the
\* livestream stopped and no current record
C7_ResolveCurrent ==
    (last.op = "resolve" /\ last.cur # 0 /\ records[last.cur].id = last.id) =>
        /\ last.ok
        /\ records[last.cur].status = "resolved"
        /\ records[last.cur].resolution_notes = last.notes
        /\ ~is_streaming
        /\ current_emergency = 0
        /\ get_current_emergency = EmptyDict

\* the current record was resolved while the livestream was running
C7_Witness ==
    /\ last.op = "resolve"
    /\ last.ok
    /\ last.cur # 0
    /\ last.was_streaming
    /\ records[last.cur].threat_level >= ALERT
    /\ current_emergency = 0

\* ---- C8 (Spec) ----
DispatcherUnchanged ==
    UNCHANGED <<records, current_emergency, emergency_history, is_streaming>>

\* C8: resolve_emergency with an id that no record carries returns failure
\* and leaves the records, the current pointer, the history and the
\* livestream as they were
C8_ResolveUnknown ==
    [][ \A notes \in ResolutionNotes :
          ( /\ \A i \in DOMAIN records : records[i].id # UnknownId
            /\ resolve_emergency(UnknownId, notes) )
          => (~last'.ok /\ DispatcherUnchanged)
      ]_vars

\* a resolve of an unknown id failed while a record was current and the
\* livestream was running
C8_Witness ==
    /\ last.op = "resolve"
    /\ last.id = UnknownId
    /\ ~last.ok
    /\ current_emergency # 0
    /\ records[current_emergency].status = "active"
    /\ is_streaming

\* ---- C9 (Spec) ----
\* C9: resolve_emergency(id) for an id that a resolved record carries
\* returns failure and changes nothing
C9_ResolveTwice ==
    [][ \A id \in EmergencyIds, notes \in ResolutionNotes :
          ( /\ \E i \in DOMAIN records : records[i].id = id /\ records[i].status = "resolved"
            /\ resolve_emergency(id, notes) )
          => (~last'.ok /\ DispatcherUnchanged)
      ]_vars

\* ---- C10 (Spec) ----
\* C10: no two records created in a session carry the same id; stated for
\* the records of dispatches whose timestamps differ (in the microsecond, the
\* second being the same), the case the rapid successive dispatches make
C10_UniqueIds ==
    \A i, j \in DOMAIN records :
        (i # j /\ records[i].timestamp # records[j].timestamp)
            => records[i].id # records[j].id

\* ---- C11 (SpecHistory) ----
\* C11: the history never holds more than max_history_size (100) records;
\* it changes only by a dispatch that returns success, which adds its record
\* at the end; when the history is full the record that leaves is the
\* oldest, its first; and the records it holds are in the order of their
\* creation
C11_HistoryCapacity ==
    [][ /\ Len(emergency_history') <= max_history_size
        /\ \A i, j \in DOMAIN emergency_history' :
               i < j => emergency_history'[i] < emergency_history'[j]
        /\ (emergency_history' # emergency_history) =>
               (last'.op = "dispatch" /\ last'.ok /\ Len(records') > Len(records))
        /\ (last'.op = "dispatch" /\ last'.ok /\ Len(records') > Len(records)) =>
               emergency_history' =
                     (IF Len(emergency_history) >= max_history_size
                      THEN Tail(emergency_history) ELSE emergency_history)
                        \o <<Len(records')>>
      ]_vars

\* the history is full, its two oldest records have been evicted and the
\* newest record is its last
C11_Witness ==
    /\ Len(emergency_history) = max_history_size
    /\ emergency_history[1] = 3
    /\ emergency_history[max_history_size] = Len(records)
    /\ Len(records) = max_history_size + 2

\* ---- helpers for the end-to-end claims (SpecCycle) ----
\* a cycle has completed that found the level changed
CycleChangedLevel == cycles > 0 /\ pc = "sleep" /\ cycle.handled

\* the dispatcher call the completed cycle made
CycleDispatch == cycle.dispatched /\ last.op = "dispatch" /\ last.caller = "cycle"

PersonsOnly(c, threshold) ==
    /\ DictGet(c.vision_data, "person_count", 0) >= threshold
    /\ ~HasTrue(c.sensor_data, "unusual_movement")
    /\ ~HasTrue(c.sensor_data, "emergency_gesture")

\* ---- C14 (SpecCycle) ----
\* C14: a cycle whose only evidence is person_count >= person_threshold
\* (4 against 3 among the cases) and that finds the level changed sets the
\* level to CAUTION and makes a dispatch in which the caution handler (log,
\* prepare) runs and no SMS is sent and no livestream is started
C14_CautionEndToEnd ==
    (CycleChangedLevel /\ PersonsOnly(cycle, person_threshold)) =>
        /\ cycle.new = CAUTION
        /\ threat_level = CAUTION
        /\ CycleDispatch
        /\ last.threat = CAUTION
        /\ last.handlers = <<"caution">>
        /\ \A i \in DOMAIN last.calls : ~IsAttempt(last.calls[i])

\* ---- C15 (SpecCycle) ----
\* C15: a cycle whose evidence is unusual_movement without emergency
\* gesture and that finds the level changed sets the level to ALERT and
\* makes a dispatch in which every configured contact is sent one SMS, the
\* police number none, and the livestream start is attempted
C15_AlertEndToEnd ==
    ( /\ CycleChangedLevel
      /\ HasTrue(cycle.sensor_data, "unusual_movement")
      /\ ~HasTrue(cycle.sensor_data, "emergency_gesture") ) =>
        /\ cycle.new = ALERT
        /\ threat_level = ALERT
        /\ CycleDispatch
        /\ last.threat = ALERT
        /\ Recipients(last.calls) = ConfiguredContacts(emergency_contacts)
        /\ Cardinality(CallsOf(last.calls, "alert", "start_emergency_stream")) = 1

\* ---- C16 (SpecCycle) ----
\* C16: a cycle whose evidence is the emergency gesture (a fist with
\* movement magnitude 12) and that finds the level changed sets the level to
\* EMERGENCY and makes a dispatch that creates a record, which is the
\* current record, is active and has at least two log entries (with a police
\* number configured: the police SMS and the livestream)
C16_EmergencyEndToEnd ==
    (CycleChangedLevel /\ HasTrue(cycle.sensor_data, "emergency_gesture")) =>
        /\ cycle.new = EMERGENCY
        /\ threat_level = EMERGENCY
        /\ CycleDispatch
        /\ last.rec # 0
        /\ current_emergency = last.rec
        /\ records[last.rec].status = "active"
        /\ police_number # "" => Len(records[last.rec].actions_taken) >= 2

\* ---- C12 (SpecLoop) ----
\* C12: an exception raised in a cycle takes the loop to its backoff sleep,
\* not to its end; from the backoff sleep the loop resumes after
\* BackoffDelay (longer than the SleepDelay after a good cycle) and, the
\* system still running, runs the next cycle; the loop ends only in a step
\* that finds is_running false
C12_LoopSurvivesExceptions ==
    [][ /\ (main_loop'.caught > main_loop.caught) => main_loop'.pc = "backoff"
        /\ (main_loop.pc = "backoff" /\ main_loop' # main_loop) =>
               /\ clock' = clock + BackoffDelay
               /\ BackoffDelay > SleepDelay
               /\ is_running => (cycles' = cycles + 1 /\ main_loop'.pc # "ended")
               /\ ~is_running => main_loop'.pc = "ended"
        /\ (main_loop'.pc = "ended" /\ main_loop.pc # "ended") => ~is_running
      ]_vars

\* two cycles in a row raised, the loop is in its backoff sleep and the
\* system is running
C12_Witness ==
    /\ main_loop.caught >= 2
    /\ main_loop.pc = "backoff"
    /\ is_running
    /\ clock >= BackoffDelay

\* ---- C20 (SpecLoop) ----
\* C20: every call of get_status, in whatever lifecycle state, returns
\* without raising, with the held threat level, the uptime (0 before the
\* first start) and the last_update of the system at the call
C20_StatusInEveryState ==
    [][ (status' # status) =>
           /\ ~status'.raised
           /\ status'.threat_level = threat_level
           /\ status'.last_update = last_update
           /\ status'.uptime = (IF start_time = None THEN 0 ELSE clock - start_time)
      ]_vars

\* ---- C13 (SpecTransport) ----
\* C13: a transport call that does not answer is awaited for a bounded
\* time only (less than MaxWait units): after it the attempt is logged as
\* failed and the dispatch goes on, so no call is still awaited at MaxWait
C13_BoundedTransportWait ==
    (pending # NoPending) => pending.waited < MaxWait

\* ---- C17 (SpecLive) ----
\* what the classifier and the vision summary said in the data a cycle read
Classified(sensor_data, flag) ==
    "processed" \in DOMAIN sensor_data /\ sensor_data.processed[flag]

Counted(vision_data) ==
    IF "summary" \in DOMAIN vision_data THEN vision_data.summary.person_count ELSE 0

\* C17: a cycle that read a snapshot in which the classifier set
\* unusual_movement evaluates at least ALERT, one in which it set
\* emergency_gesture evaluates EMERGENCY, and one that read an analysis
\* counting at least person_threshold persons evaluates at least CAUTION
C17_SignalsReachEvaluator ==
    (cycles > 0) =>
        /\ Classified(cycle.sensor_data, "unusual_movement") => cycle.new >= ALERT
        /\ Classified(cycle.sensor_data, "emergency_gesture") => cycle.new >= EMERGENCY
        /\ (Counted(cycle.vision_data) >= person_threshold) => cycle.new >= CAUTION

\* ---- C18 (SpecLive) ----
\* C18: no snapshot is built from readings of a channel taken while a
\* calibration routine of that channel is in progress
C18_NoReadingsDuringCalibration ==
    fed = {}

\* ---- C19 (SpecReaders) ----
\* C19: what a caller does to a value a query returned (to its action log,
\* to its fields) leaves the dispatcher's records as they were; and what the
\* dispatcher does afterwards (a dispatch, a resolution) leaves the value
\* the caller holds as it was
C19_ReadersHoldSnapshots ==
    [][ /\ (reader'.writes > reader.writes) => records' = records
        /\ (reader' = reader) => seen(reader', records') = seen(reader, records)
      ]_vars

\* the configuration errors: a required section missing, a sample rate that
\* is not a number or not positive, a resolution that is not a list of two
ConfigError(c) ==
    \/ \E section \in RequiredSections : section \notin c.sections
    \/ c.sample_rate.type \notin {"int", "float"}
    \/ c.sample_rate.value <= 0
    \/ c.resolution.type # "list"
    \/ c.resolution.len # 2

\* C21: with a configuration error, every start returns failure, no
\* subsystem is ever initialised, is_running stays false and the main loop
\* task is never created
C21_ConfigErrorFatalAtStartup ==
    ConfigError(config) =>
        /\ started.called => ~started.result
        /\ subsystems = {}
        /\ ~haptic_controller
        /\ ~is_running
        /\ start_time = None
        /\ main_loop.pc = "none"

C21_Witness ==
    /\ ConfigError(config)
    /\ started.called
    /\ ~started.result
    /\ config.sample_rate.value <= 0

\* the calibration profile of each channel
PressureProfile(p) == <<p.baseline, p.touch_threshold>>

FlexProfile(f) == <<f.baseline, f.min_value, f.max_value>>

ImuProfile(u) == <<u.accel_bias, u.gyro_bias, u.mag_bias>>

\* C22: the configured sensitivity always lies in [0.1, 10.0]; for every raw
\* input the calibrated pressure lies in [0, max_pressure] and the calibrated
\* flex value in [0, 1], and so does the value of every reading returned
C22_ClampingInvariant ==
    /\ pressure.sensitivity \in 1..100
    /\ \A raw_value \in RawPressures :
         pressure_apply_calibration(pressure, raw_value) \in 0..max_pressure
    /\ \A raw_value \in RawFlex : flex_apply_calibration(flex, raw_value) \in 0..10
    /\ (pressure.out.op = "read") => pressure.out.value \in 0..max_pressure
    /\ (flex.out.op = "read") => flex.out.value \in 0..10

C22_Witness ==
    /\ pressure.out.op = "read"
    /\ pressure.out.ok
    /\ pressure.sensitivity = 100
    /\ pressure.out.value = max_pressure

\* a calibrate call that ends without having suspended: its loop body never
\* ran, the sample count was zero
ZeroSamples(ch, ch2) ==
    /\ ch.cal.pc = "idle"
    /\ ch2.cal.pc = "idle"
    /\ ch2.out.op = "calibrate"
    /\ ch2.out # ch.out \/ ch2.calibrations # ch.calibrations

\* C23: a calibration with zero samples returns failure and leaves the
\* profile of the channel as it was
C23_ZeroSamplesFail ==
    [][ /\ ZeroSamples(pressure, pressure') =>
               ~pressure'.out.ok /\ PressureProfile(pressure') = PressureProfile(pressure)
        /\ ZeroSamples(flex, flex') =>
               ~flex'.out.ok /\ FlexProfile(flex') = FlexProfile(flex)
        /\ ZeroSamples(imu, imu') =>
               ~imu'.out.ok /\ ImuProfile(imu') = ImuProfile(imu) ]_vars

C23_Witness ==
    /\ imu.out.op = "calibrate"
    /\ ~imu.out.ok
    /\ imu.calibrations = 1
    /\ imu.gyro_bias # <<0, 0, 0>>

\* the step in which a suspended calibrate call returns success
Completes(ch, ch2) ==
    /\ ch.cal.pc = "sampling"
    /\ ch2.cal.pc = "idle"
    /\ ch2.out.op = "calibrate"
    /\ ch2.out.ok

\* C24: a profile changes only in the one step that ends a calibration, and
\* then to the complete new profile; a reading taken while a calibration is
\* suspended is computed with the profile as it was before and as it stays
C24_AtomicProfileReplacement ==
    [][ /\ PressureProfile(pressure') # PressureProfile(pressure) =>
               /\ Completes(pressure, pressure')
               /\ pressure'.baseline = mean(pressure.cal.readings)
               /\ pressure'.touch_threshold =
                      pressure'.baseline + 3 * std(pressure.cal.readings, pressure'.baseline)
        /\ FlexProfile(flex') # FlexProfile(flex) =>
               /\ Completes(flex, flex')
               /\ flex'.baseline = mean(flex.cal.readings)
               /\ flex'.min_value = flex'.baseline - 1
               /\ flex'.max_value = flex'.baseline + 5
        /\ ImuProfile(imu') # ImuProfile(imu) =>
               /\ Completes(imu, imu')
               /\ \A i \in 1..3 :
                    /\ imu'.accel_bias[i] =
                          axis_mean([k \in DOMAIN imu.cal.readings |-> imu.cal.readings[k].accel], i)
                          - (IF i = 3 THEN gravity ELSE 0)
                    /\ imu'.gyro_bias[i] =
                          axis_mean([k \in DOMAIN imu.cal.readings |-> imu.cal.readings[k].gyro], i)
                    /\ imu'.mag_bias[i] =
                          axis_mean([k \in DOMAIN imu.cal.readings |-> imu.cal.readings[k].mag], i)
        /\ (pressure'.out # pressure.out /\ pressure'.out.op = "read" /\ pressure'.out.ok) =>
               /\ pressure'.out.profile = PressureProfile(pressure)
               /\ PressureProfile(pressure') = PressureProfile(pressure)
        /\ (flex'.out # flex.out /\ flex'.out.op = "read" /\ flex'.out.ok) =>
               /\ flex'.out.profile = FlexProfile(flex)
               /\ FlexProfile(flex') = FlexProfile(flex)
        /\ (imu'.out # imu.out /\ imu'.out.op = "read" /\ imu'.out.ok) =>
               /\ imu'.out.profile = ImuProfile(imu)
               /\ ImuProfile(imu') = ImuProfile(imu) ]_vars

\* a reading taken while the second calibration of the channel is suspended
C24_Witness ==
    /\ pressure.calibrations = 1
    /\ pressure.cal.pc = "sampling"
    /\ pressure.out.op = "read"
    /\ pressure.out.ok
    /\ pressure.out.during
    /\ pressure.out.profile = PressureProfile(pressure)
    /\ pressure.baseline # NewPressure.baseline

\* a step in which an initialised pressure channel returns a reading
Reading(p, p2) ==
    /\ p.is_initialized
    /\ p2.is_initialized
    /\ p2.out.op = "read"
    /\ p2.out.ok
    /\ p2.cal = p.cal
    /\ p2.sensitivity = p.sensitivity
    /\ p2 # p

\* C25: is_touching holds exactly when touch_start_time is set; a reading at
\* or above the touch threshold takes Idle to Touching and records the time,
\* a reading below it takes Touching to Idle and emits now - touch_start,
\* every other reading leaves the touch state as it was
C25_TouchStateMachine ==
    /\ [](pressure.is_touching <=> pressure.touch_start_time # None)
    /\ [][ Reading(pressure, pressure') =>
             IF ~pressure.is_touching /\ pressure'.out.value >= pressure.touch_threshold
             THEN /\ pressure'.is_touching
                  /\ pressure'.touch_start_time = clock
                  /\ pressure'.out.ended = None
             ELSE IF pressure.is_touching /\ pressure'.out.value < pressure.touch_threshold
             THEN /\ ~pressure'.is_touching
                  /\ pressure'.touch_start_time = None
                  /\ pressure'.out.ended = clock - pressure.touch_start_time
             ELSE /\ pressure'.is_touching = pressure.is_touching
                  /\ pressure'.touch_start_time = pressure.touch_start_time
                  /\ pressure'.out.ended = None ]_vars

C25_Witness ==
    /\ pressure.out.op = "read"
    /\ pressure.out.ok
    /\ pressure.out.ended = 1
    /\ ~pressure.is_touching

\* C26: a read of an IMU unit that is not initialised returns the
\* not-initialised error and changes neither the orientation, the
\* quaternion, the velocity, the position nor last_update_time
C26_ReadNotInitialised ==
    [][ (~imu.is_initialized /\ imu'.out # imu.out /\ imu'.out.op = "read") =>
            /\ ~imu'.out.ok
            /\ imu'.out.error = "IMU sensor not initialized"
            /\ imu'.orientation = imu.orientation
            /\ imu'.quaternion = imu.quaternion
            /\ imu'.velocity = imu.velocity
            /\ imu'.position = imu.position
            /\ imu'.last_update_time = imu.last_update_time ]_vars

\* the unit has been read, stopped, and read again
C26_Witness ==
    /\ ~imu.is_initialized
    /\ imu.out.op = "read"
    /\ ~imu.out.ok
    /\ imu.reads > 0
    /\ imu.orientation # NewIMU.orientation

\* C27: the first read after an initialisation leaves the orientation, the
\* quaternion, the velocity and the position as they were
C27_FirstReadNoIntegration ==
    [][ (imu.is_initialized /\ imu.fresh /\ imu'.reads = imu.reads + 1) =>
            /\ imu'.orientation = imu.orientation
            /\ imu'.quaternion = imu.quaternion
            /\ imu'.velocity = imu.velocity
            /\ imu'.position = imu.position ]_vars

\* C28: roll, pitch and yaw lie in (-180, 180]
C28_AnglesHalfOpen ==
    \A i \in 1..3 : -180 < imu.orientation[i] /\ imu.orientation[i] <= 180

\* C29: the stored quaternion is the conversion of the stored orientation
C29_QuaternionFollowsEuler ==
    imu.quaternion = euler_to_quaternion(imu.orientation)

C29_Witness ==
    /\ imu.reads > 0
    /\ imu.orientation # NewIMU.orientation
    /\ imu.quaternion # NewIMU.quaternion

closed_count(v) == Cardinality({i \in DOMAIN v : v[i] > 7})

open_count(v) == Cardinality({i \in DOMAIN v : v[i] < 3})

\* C30: on five flex values the classifier returns fist iff all five are
\* closed, open_hand iff all five are open, pointing iff four are closed and
\* the index is open, peace_sign iff three are closed and the index and the
\* pinky are open; on fewer than five values it returns nothing
C30_GestureClassifier ==
    hand.called =>
        LET v == hand.flex_values
        IN  /\ Len(v) = 5 =>
                  /\ "fist" \in hand.gestures <=> closed_count(v) = 5
                  /\ "open_hand" \in hand.gestures <=> open_count(v) = 5
                  /\ "pointing" \in hand.gestures <=> (closed_count(v) = 4 /\ v[2] < 3)
                  /\ "peace_sign" \in hand.gestures <=>
                         (closed_count(v) = 3 /\ v[2] < 3 /\ v[5] < 3)
            /\ Len(v) < 5 => hand.gestures = {}

C30_Witness ==
    /\ hand.called
    /\ Len(hand.flex_values) = 5
    /\ hand.gestures = {"peace_sign"}
    /\ hand.flex_values[1] = 8

\* ---- C31 (SpecSnapshots) ----
\* C31: in a snapshot whose IMU read returned an acceleration,
\* unusual_movement is true iff the norm of that acceleration is above
\* 15 m/s^2, and emergency_gesture is true iff fist is among the gestures
\* and that norm is above 10 m/s^2
C31_FlagsFromImuAcceleration ==
    ("processed" \in DOMAIN latest_data /\ "calibrated_data" \in DOMAIN latest_data.imu) =>
        LET magnitude == norm(latest_data.imu.calibrated_data.acceleration)
            processed == latest_data.processed
        IN  /\ "unusual_movement" \in DOMAIN processed
            /\ processed.unusual_movement <=> magnitude > 1500
            /\ processed.emergency_gesture <=>
                   ("fist" \in processed.gestures /\ magnitude > 1000)

\* ---- C32 (SpecConfig) ----
IsPrefixKey(a, b) == Len(a) <= Len(b) /\ SubSeq(b, 1, Len(a)) = a

\* two dotted keys of which neither lies on the path of the other
Unrelated(a, b) == ~IsPrefixKey(a, b) /\ ~IsPrefixKey(b, a)

\* every segment of the dotted key names an entry, each below a dict
PathExists(tree, keys) == lookup(tree, keys).kind # "raised"

\* C32: a set(key, v) returns, and a get(key) after it returns v; the value
\* of every key that lies neither on the path of key nor below it is as it
\* was before the set; a get of a key whose path does not exist returns the
\* default it was given
C32_SetGetRoundTrip ==
    [][ /\ manager'.sets = manager.sets + 1 =>
              /\ ~manager'.out.raised
              /\ \A d \in GetDefaults :
                   config_get(manager'.config, manager'.out.keys, d) = manager'.out.value
              /\ \A k \in ConfigKeys, d \in GetDefaults :
                   Unrelated(k, manager'.out.keys) =>
                       config_get(manager'.config, k, d) = config_get(manager.config, k, d)
        /\ (manager'.out # manager.out /\ manager'.out.op = "get"
              /\ ~PathExists(manager.config, manager'.out.keys)) =>
              manager'.out.value = manager'.out.default ]_vars

\* ---- C33 (SpecConfig) ----
\* C33: a manager constructed on the path after a save_config that returned
\* success returns, for every key, the value the saving manager held when
\* it saved
C33_SaveLoadRoundTrip ==
    (manager.second.constructed /\ manager.second.saved.ok) =>
        \A k \in ConfigKeys, d \in GetDefaults :
            config_get(manager.second.config, k, d) =
                config_get(manager.second.saved.config, k, d)

\* ---- C34 (Spec) ----
\* C34: a dispatch at ALERT or above that begins while the livestream is
\* running makes no livestream start call in its alert step
C34_AlertStartsOnlyWhenIdle ==
    (IsDispatch /\ last.threat >= ALERT /\ last.was_streaming) =>
        CallsOf(last.calls, "alert", "start_emergency_stream") = {}

\* ---- C35 (SpecCycle) ----
\* the step in which the dispatch call of a level change begins
DispatchBegins ==
    /\ cycle'.dispatched
    /\ pc' = "sleep"
    /\ (pc = "haptic" \/ cycles' # cycles)

C36_ActiveIsCurrent ==
    \A i \in DOMAIN emergency_history :
        records[emergency_history[i]].status = "active" =>
            emergency_history[i] = current_emergency

\* ---- C37 (Spec) ----
\* C37: a dispatch that returns failure leaves the current-emergency pointer
\* and the history as they were; a dispatch that returns success has made
\* current the record that is the last element of the history
C37_FailedDispatchChangesNothing ==
    [][ (Len(records') = Len(records) + 1) =>
            IF last'.ok
            THEN /\ emergency_history' # <<>>
                 /\ emergency_history'[Len(emergency_history')] = current_emergency'
            ELSE /\ current_emergency' = current_emergency
                 /\ emergency_history' = emergency_history ]_vars


\* C38: when start has returned failure, no background loop is left running,
\* and once a stop call has returned no sensor or vision loop runs
C38_FailedStartLeavesNoLoop ==
    /\ (started.called /\ ~started.result) => background.loops = {}
    /\ background.stopped => background.loops = {}

\* ---- C39 (SpecLoopFair) ----
\* a stop call has returned and has left the system stopped
StopReturned == background.stopped /\ ~is_running

\* the main loop task, once created, ends after stop has returned
C39_LoopTerminates ==
    (StopReturned /\ main_loop.pc # "none") ~> (main_loop.pc = "ended")

\* after stop has returned no cycle hands a pattern to the haptic controller
\* and no cycle begins a dispatch
C39_NothingInitiatedAfterStop ==
    [][ StopReturned => /\ ~DispatchBegins
                        /\ ~(pc # "haptic" /\ pc' = "haptic") ]_vars

\* C39: once stop has returned, the main loop eventually terminates, and no
\* haptic feedback and no emergency dispatch is initiated any more, also
\* when stop was called while a cycle was suspended in the haptic
\* activation delay
C39_StopEndsLoopAndCycle ==
    /\ C39_LoopTerminates
    /\ C39_NothingInitiatedAfterStop

====
